---- MODULE Spec2Model ----
(***************************************************************************)
(* Feature profiling and classification engine of the car-wash site        *)
(* selector: the quantile/IQR tier classifier (QuantileProfiler,           *)
(* DimensionProfiler), the percentile-rank scorer (CTOExactProfiler and    *)
(* the approach-2 scorer built on it) and the lazily built profiler        *)
(* singletons of the HTTP routes.                                          *)
(*                                                                         *)
(* Numbers.  Python floats are modelled by exact scaled integers:          *)
(*   - a tier fit score s in [0,1] is the integer s * ScoreUnit;           *)
(*   - fit_score (one decimal) is an integer number of tenths;             *)
(*   - percentiles and 0-100 scores (two decimals) are hundredths;         *)
(*   - weights are ten-thousandths.                                        *)
(* round(x, n) is round-half-even on the exact value.                      *)
(***************************************************************************)
EXTENDS Integers, Sequences, FiniteSets, TLC

VARIABLES
    feature_ranges,   \* QuantileProfiler.feature_ranges: feature -> tier -> range
    category_stats,   \* QuantileProfiler.category_stats: tier -> volume statistics
    distributions,    \* CTOExactProfiler.distributions: feature -> non-null sample
    call,             \* the request being served: [pc, op, args, ret]
    singleton,        \* the module-level globals holding the lazily built profilers
    thread,           \* per thread: position in _get_profilers / _get_profiler, locals
    built,            \* per kind of profiler: how many were constructed so far
    history,          \* the calls already answered, oldest first: [op, args, ret]
    frames            \* per thread: the locals of the classification call it runs

vars == <<feature_ranges, category_stats, distributions, call, singleton, thread, built,
          history, frames>>

-----------------------------------------------------------------------------
(* Bounds of the model *)

MaxValue == 3            \* feature values and quantiles range over 0..MaxValue
MaxInputFeatures == 2    \* a request carries at most this many feature keys
NumThreads == 2          \* request threads that may ask for a profiler at once
MaxCalls == 2            \* calls of a profiler getter per thread
MaxSampleSize == 4       \* historical samples hold 1..MaxSampleSize values
MaxScoredFeatures == 2   \* a profiler_scores mapping holds at most this many features

-----------------------------------------------------------------------------
(* Arithmetic helpers *)

Abs(x) == IF x < 0 THEN -x ELSE x
Min2(a, b) == IF a <= b THEN a ELSE b
Max2(a, b) == IF a >= b THEN a ELSE b

RECURSIVE Gcd(_, _)
Gcd(a, b) == IF b = 0 THEN a ELSE Gcd(b, a % b)

RECURSIVE LcmUpTo(_)
LcmUpTo(n) == IF n <= 1 THEN 1 ELSE (LcmUpTo(n - 1) * n) \div Gcd(LcmUpTo(n - 1), n)

\* The integer that stands for the float 1.0 of a tier fit score: every width
\* q75 - q25 of the model divides it, so 1 - dist / iqr_width is exact.
ScoreUnit == LcmUpTo(MaxValue)

\* Python's round(): the nearest integer to num / den, halves to the even one.
RoundHalfEven(num, den) ==
    LET q == num \div den
        r == num % den
    IN  IF 2 * r < den THEN q
        ELSE IF 2 * r > den THEN q + 1
        ELSE IF q % 2 = 0 THEN q ELSE q + 1

RECURSIVE SumOver(_, _)
SumOver(S, f) ==
    IF S = {} THEN 0
    ELSE LET x == CHOOSE y \in S : TRUE IN f[x] + SumOver(S \ {x}, f)

Range(s) == {s[i] : i \in 1..Len(s)}

\* max() keeping the last key of the greatest value instead of the first.
MaxKeyLast(keys, d) ==
    LET best == CHOOSE i \in 1..Len(keys) :
                    /\ \A j \in 1..Len(keys) : d[keys[j]] <= d[keys[i]]
                    /\ \A j \in (i + 1)..Len(keys) : d[keys[j]] < d[keys[i]]
    IN  keys[best]

\* Python's max(d, key=d.get) over a dict whose keys iterate in the order of
\* `keys`: the first key of the greatest value.
MaxKey(keys, d) ==
    LET best == CHOOSE i \in 1..Len(keys) :
                    /\ \A j \in 1..Len(keys) : d[keys[j]] <= d[keys[i]]
                    /\ \A j \in 1..(i - 1) : d[keys[j]] < d[keys[i]]
    IN  keys[best]

None == -1               \* Python's None as a feature value
Values == 0..MaxValue    \* the numeric feature values of the model

-----------------------------------------------------------------------------
(* profiler_engine.py: constants *)

CATEGORY_LABELS == <<"Low Performing", "Average Performing", "High Performing">>

Labels == Range(CATEGORY_LABELS)

\* The five business dimensions in their dict order.  Each keeps one or two of
\* its features; the source lists 8, 23, 3, 2 and 14.
DimensionOrder == <<"Weather", "Traffic", "Competition", "Infrastructure", "Retail Proximity">>

DIMENSION_GROUPS ==
    [d \in Range(DimensionOrder) |->
        CASE d = "Weather" -> <<"total_sunshine_hours", "rainy_days">>
          [] d = "Traffic" -> <<"nearby_traffic_lights_count">>
          [] d = "Competition" -> <<"competitors_count">>
          [] d = "Infrastructure" -> <<"total_weekly_operational_hours">>
          [] d = "Retail Proximity" -> <<"Sum ChainXY">>]

DimensionFeatures == UNION {Range(DIMENSION_GROUPS[d]) : d \in DOMAIN DIMENSION_GROUPS}

\* Keys a request's feature mapping may carry: the dimension features and a
\* name no dataset column and no dimension knows.
InputKeys == DimensionFeatures \cup {"unknown_feature"}

-----------------------------------------------------------------------------
(* profiler_engine.py: QuantileProfiler *)

\* ScoreTier measuring the distance to the farther IQR boundary.
ScoreTierFarBoundary(r, value) ==
    LET q25 == r.q25
        q75 == r.q75
        iqr_width == q75 - q25
    IN  IF q25 <= value /\ value <= q75 THEN ScoreUnit
        ELSE IF iqr_width > 0
             THEN LET dist == Max2(Abs(value - q25), Abs(value - q75))
                  IN  Max2(0, ScoreUnit - (ScoreUnit * dist) \div iqr_width)
        ELSE IF value = q25 THEN ScoreUnit ELSE 0

\* ScoreTier without the max(0.0, ...) of line 233.
ScoreTierUnclamped(r, value) ==
    LET q25 == r.q25
        q75 == r.q75
        iqr_width == q75 - q25
    IN  IF q25 <= value /\ value <= q75 THEN ScoreUnit
        ELSE IF iqr_width > 0
             THEN LET dist == Min2(Abs(value - q25), Abs(value - q75))
                  IN  ScoreUnit - (ScoreUnit * dist) \div iqr_width
        ELSE IF value = q25 THEN ScoreUnit ELSE 0

\* One tier of score_feature: the fit of `value` to the range r, as a multiple
\* of 1 / ScoreUnit.
ScoreTier(r, value) ==
    LET q25 == r.q25
        q75 == r.q75
        iqr_width == q75 - q25
    IN  IF q25 <= value /\ value <= q75 THEN ScoreUnit
        ELSE IF iqr_width > 0
             THEN LET dist == Min2(Abs(value - q25), Abs(value - q75))
                  IN  Max2(0, ScoreUnit - (ScoreUnit * dist) \div iqr_width)
        ELSE IF value = q25 THEN ScoreUnit ELSE 0

\* score_feature(feature, value): tier -> fit, for the tiers that have a range;
\* the empty dict for a feature without ranges.
score_feature(feature, value) ==
    IF feature \notin DOMAIN feature_ranges THEN <<>>
    ELSE [cat \in DOMAIN feature_ranges[feature] |->
              ScoreTier(feature_ranges[feature][cat], value)]

\* The features score_location walks: feature_subset, or every key of the
\* mapping when the subset is None or empty (`feature_subset or list(...)`).
FeaturesToScore(location_features, feature_subset) ==
    IF feature_subset # <<>> THEN Range(feature_subset) ELSE DOMAIN location_features

\* score_location reading a null value as 0 instead of skipping the feature.
score_location_null_as_zero(location_features, feature_subset) ==
    LET scored == {feat \in FeaturesToScore(location_features, feature_subset) :
                      feat \in DOMAIN location_features}
        val(feat) == IF location_features[feat] = None THEN 0 ELSE location_features[feat]
        contribution(cat) ==
            [feat \in scored |->
                LET per_tier == score_feature(feat, val(feat))
                IN  IF cat \in DOMAIN per_tier THEN per_tier[cat] ELSE 0]
    IN  [cat \in Labels |-> SumOver(scored, contribution(cat))]

\* score_location(location_features, feature_subset): the total fit per tier.
score_location(location_features, feature_subset) ==
    LET scored == {feat \in FeaturesToScore(location_features, feature_subset) :
                      /\ feat \in DOMAIN location_features
                      /\ location_features[feat] # None}
        contribution(cat) ==
            [feat \in scored |->
                LET per_tier == score_feature(feat, location_features[feat])
                IN  IF cat \in DOMAIN per_tier THEN per_tier[cat] ELSE 0]
    IN  [cat \in Labels |-> SumOver(scored, contribution(cat))]

\* The tiers of a score_feature result in dict order (category_labels order).
TierKeys(per_tier) == SelectSeq(CATEGORY_LABELS, LAMBDA cat : cat \in DOMAIN per_tier)

\* max(per_tier, key=per_tier.get) if per_tier else "N/A"
BestFit(per_tier) ==
    IF DOMAIN per_tier = {} THEN "N/A" ELSE MaxKey(TierKeys(per_tier), per_tier)

\* The per-feature breakdown built by predict(return_details=True) for one
\* feature (value, best_fit, tier_scores; the ranges are copied unchanged).
FeatureDetail(feat, val) ==
    LET per_tier == score_feature(feat, val)
    IN  [value |-> val, best_fit |-> BestFit(per_tier), tier_scores |-> per_tier]

\* FitPct taking the share of the first tier label instead of the predicted
\* tier's.
FitPctOfFirstLabel(scores, predicted, total) ==
    IF total > 0 THEN RoundHalfEven(1000 * scores[CATEGORY_LABELS[1]], total) ELSE 0

\* round(100 * scores[predicted] / total, 1) if total > 0 else 0.0, in tenths.
FitPct(scores, predicted, total) ==
    IF total > 0 THEN RoundHalfEven(1000 * scores[predicted], total) ELSE 0

\* Lines 279-315 of predict: the result built from the totals `scores` that
\* score_location returned.
PredictResult(scores, location_features, return_details) ==
    LET total == SumOver(Labels, scores)
        predicted == MaxKey(CATEGORY_LABELS, scores)
        vol == category_stats[predicted]
        detailed == {feat \in DOMAIN location_features :
                        /\ feat \in DOMAIN feature_ranges
                        /\ location_features[feat] # None}
        result == [predicted_category |-> predicted,
                   fit_score |-> FitPct(scores, predicted, total),
                   category_scores |->
                       [k \in Labels |-> RoundHalfEven(100 * scores[k], ScoreUnit)],
                   expected_volume |-> [conservative |-> vol.q25,
                                        likely |-> vol.median,
                                        optimistic |-> vol.q75]]
    IN  IF return_details
        THEN [k \in DOMAIN result \cup {"feature_details"} |->
                 IF k = "feature_details"
                 THEN [feat \in detailed |-> FeatureDetail(feat, location_features[feat])]
                 ELSE result[k]]
        ELSE result

\* predict(location_features, return_details)
predict(location_features, return_details) ==
    PredictResult(score_location(location_features, <<>>), location_features, return_details)

-----------------------------------------------------------------------------
(* dimension_profiler.py: DimensionProfiler *)

\* self.dimensions.get(dimension, [])
DimFeatures(dimension) ==
    IF dimension \in DOMAIN DIMENSION_GROUPS THEN DIMENSION_GROUPS[dimension] ELSE <<>>

\* The dimension's features present and non-null in the input and known to the
\* profiler, in the dimension's order.
Relevant(dimension, location_features) ==
    SelectSeq(DimFeatures(dimension),
              LAMBDA f : /\ f \in DOMAIN location_features
                         /\ location_features[f] # None
                         /\ f \in DOMAIN feature_ranges)

\* score_dimension without the early return for an empty `relevant`: the empty
\* subset then reaches score_location, which reads it as "all features".
score_dimension_no_early_return(dimension, location_features) ==
    LET relevant == Relevant(dimension, location_features)
        scores == score_location(location_features, relevant)
        total == SumOver(Labels, scores)
        predicted == IF total > 0 THEN MaxKey(CATEGORY_LABELS, scores)
                     ELSE "Insufficient Data"
    IN  [scores |-> [k \in Labels |-> RoundHalfEven(1000 * scores[k], ScoreUnit)],
         predicted |-> predicted,
         fit_score |-> FitPct(scores, predicted, total),
         features_scored |-> Len(relevant),
         feature_details |->
             [feat \in Range(relevant) |-> FeatureDetail(feat, location_features[feat])]]

\* Lines 70-77 of score_dimension: the result when no feature is relevant.
NoRelevantFeature ==
    [scores |-> <<>>,
     predicted |-> "Insufficient Data",
     fit_score |-> 0,
     features_scored |-> 0,
     feature_details |-> <<>>]

\* ScoreDimensionResult naming the first of the best tiers also when every
\* total is 0.
ScoreDimensionResultAlwaysTier(scores, relevant, location_features) ==
    LET total == SumOver(Labels, scores)
        predicted == MaxKey(CATEGORY_LABELS, scores)
    IN  [scores |-> [k \in Labels |-> RoundHalfEven(1000 * scores[k], ScoreUnit)],
         predicted |-> predicted,
         fit_score |-> FitPct(scores, predicted, total),
         features_scored |-> Len(relevant),
         feature_details |->
             [feat \in Range(relevant) |-> FeatureDetail(feat, location_features[feat])]]

\* Lines 80-106 of score_dimension: the result built from the totals `scores`
\* that score_location returned for the relevant features.  scores are
\* thousandths (round(v, 3)), fit_score tenths.
ScoreDimensionResult(scores, relevant, location_features) ==
    LET total == SumOver(Labels, scores)
        predicted == IF total > 0 THEN MaxKey(CATEGORY_LABELS, scores)
                     ELSE "Insufficient Data"
    IN  [scores |-> [k \in Labels |-> RoundHalfEven(1000 * scores[k], ScoreUnit)],
         predicted |-> predicted,
         fit_score |-> FitPct(scores, predicted, total),
         features_scored |-> Len(relevant),
         feature_details |->
             [feat \in Range(relevant) |-> FeatureDetail(feat, location_features[feat])]]

\* score_dimension(dimension, location_features)
score_dimension(dimension, location_features) ==
    LET relevant == Relevant(dimension, location_features)
    IN  IF relevant = <<>> THEN NoRelevantFeature
        ELSE ScoreDimensionResult(score_location(location_features, relevant),
                                  relevant, location_features)

\* score_all_dimensions(location_features): a dict in DIMENSION_GROUPS order,
\* modelled as the sequence of its items.
score_all_dimensions(location_features) ==
    [i \in 1..Len(DimensionOrder) |->
        [dim |-> DimensionOrder[i],
         res |-> score_dimension(DimensionOrder[i], location_features)]]

\* The items of dim_results whose prediction is a key of votes, in order.
VotingItems(dim_results) ==
    SelectSeq(dim_results, LAMBDA item : item.res.predicted \in Labels)

\* majority_vote without the any(votes.values()) guard.
majority_vote_no_guard(dim_results) ==
    LET voting == VotingItems(dim_results)
        votes == [cat \in Labels |->
                     Cardinality({i \in 1..Len(voting) : voting[i].res.predicted = cat})]
        winner == MaxKey(CATEGORY_LABELS, votes)
    IN  [category |-> winner,
         agreement |-> votes[winner],
         total_dimensions |-> SumOver(Labels, votes),
         vote_breakdown |-> votes,
         voting_dimensions |-> [i \in 1..Len(voting) |-> voting[i].dim]]

\* majority_vote with `votes` kept on the profiler between calls: counting
\* starts from the breakdown of the last majority_vote answered.
majority_vote_votes_kept(dim_results) ==
    LET voting == VotingItems(dim_results)
        earlier == SelectSeq(history, LAMBDA h : h.op = "majority_vote")
        kept == IF earlier = <<>> THEN [cat \in Labels |-> 0]
                ELSE earlier[Len(earlier)].ret.vote_breakdown
        votes == [cat \in Labels |->
                     kept[cat]
                     + Cardinality({i \in 1..Len(voting) : voting[i].res.predicted = cat})]
        any_votes == \E cat \in Labels : votes[cat] # 0
        winner == IF any_votes THEN MaxKey(CATEGORY_LABELS, votes) ELSE "Undetermined"
    IN  [category |-> winner,
         agreement |-> IF winner \in Labels THEN votes[winner] ELSE 0,
         total_dimensions |-> SumOver(Labels, votes),
         vote_breakdown |-> votes,
         voting_dimensions |-> [i \in 1..Len(voting) |-> voting[i].dim]]

\* majority_vote(dim_results)
majority_vote(dim_results) ==
    LET voting == VotingItems(dim_results)
        votes == [cat \in Labels |->
                     Cardinality({i \in 1..Len(voting) : voting[i].res.predicted = cat})]
        any_votes == \E cat \in Labels : votes[cat] # 0
        winner == IF any_votes THEN MaxKey(CATEGORY_LABELS, votes) ELSE "Undetermined"
    IN  [category |-> winner,
         agreement |-> IF winner \in Labels THEN votes[winner] ELSE 0,
         total_dimensions |-> SumOver(Labels, votes),
         vote_breakdown |-> votes,
         voting_dimensions |-> [i \in 1..Len(voting) |-> voting[i].dim]]

\* `"High" in pred`, `"Low" in pred`, `"Average" in pred` on the predictions
\* the engine produces.
HasHigh(pred) == pred = "High Performing"
HasLow(pred) == pred = "Low Performing"
HasAverage(pred) == pred = "Average Performing"

\* The branch of get_strengths_weaknesses a prediction takes.
Classify(pred) ==
    IF HasHigh(pred) THEN "strength"
    ELSE IF HasLow(pred) THEN "weakness"
    ELSE IF HasAverage(pred) THEN "neutral"
    ELSE "none"

DimsWhere(dim_results, kind) ==
    LET kept == SelectSeq(dim_results, LAMBDA item : Classify(item.res.predicted) = kind)
    IN  [i \in 1..Len(kept) |-> kept[i].dim]

\* get_strengths_weaknesses(dim_results)
get_strengths_weaknesses(dim_results) ==
    [strengths |-> DimsWhere(dim_results, "strength"),
     weaknesses |-> DimsWhere(dim_results, "weakness"),
     neutrals |-> DimsWhere(dim_results, "neutral")]

-----------------------------------------------------------------------------
(* server/routes.py: the profiling summary endpoint *)

\* get_full_profiling_summary for a task that succeeded with `feature_values`
\* and profilers that are loaded (the rationale text is left out).
get_full_profiling_summary(feature_values) ==
    LET overall == predict(feature_values, TRUE)
        dim_results == score_all_dimensions(feature_values)
        vote == majority_vote(dim_results)
        sw == get_strengths_weaknesses(dim_results)
    IN  [overall_tier |-> vote.category,
         overall_fit_score |-> overall.fit_score,
         expected_volume |-> overall.expected_volume,
         dimensions |-> [i \in 1..Len(dim_results) |->
                            [dim |-> dim_results[i].dim,
                             predicted |-> dim_results[i].res.predicted,
                             fit_score |-> dim_results[i].res.fit_score,
                             features_scored |-> dim_results[i].res.features_scored]],
         vote |-> vote,
         strengths |-> sw.strengths,
         weaknesses |-> sw.weaknesses]

-----------------------------------------------------------------------------
(* site_profiler.py: SiteProfiler.score_feature, the older per-tier scorer.
   A tier without data is stored as None there; here it is a tier missing
   from the feature's ranges. *)

site_score_feature(feature, value, category) ==
    IF feature \notin DOMAIN feature_ranges THEN 0
    ELSE IF category \notin DOMAIN feature_ranges[feature] THEN 0
    ELSE LET ranges == feature_ranges[feature][category]
             q25 == ranges.q25
             q75 == ranges.q75
             dist_from_range == Min2(Abs(value - q25), Abs(value - q75))
             range_width == q75 - q25
         IN  IF q25 <= value /\ value <= q75 THEN ScoreUnit
             ELSE IF range_width > 0
                  THEN Max2(0, ScoreUnit - (ScoreUnit * dist_from_range) \div range_width)
             ELSE 0

-----------------------------------------------------------------------------
(* Reference data the profiler can hold after construction *)

\* A FeatureRange; q50 is put at the middle of the IQR.
R(a, b) == [q25 |-> a, q50 |-> a + ((b - a) \div 2), q75 |-> b]

Tiers3(low, avg, high) ==
    [cat \in Labels |-> CASE cat = "Low Performing" -> low
                          [] cat = "Average Performing" -> avg
                          [] cat = "High Performing" -> high]

\* Tables _compute_feature_ranges can produce: tiers with separated, reversed,
\* zero-width and overlapping ranges, a feature with a tier left out (fewer
\* than 5 observations), a feature with no tier at all, and dimension features
\* that are no column of the dataset.
MixedTable ==
    [f \in DimensionFeatures \ {"Sum ChainXY"} |->
        CASE f = "total_sunshine_hours" -> Tiers3(R(0, 1), R(1, 2), R(2, 3))
          [] f = "rainy_days" -> Tiers3(R(2, 3), R(1, 2), R(0, 1))
          [] f = "nearby_traffic_lights_count" -> Tiers3(R(1, 1), R(1, 1), R(1, 3))
          [] f = "competitors_count" ->
                 [cat \in {"Low Performing", "High Performing"} |->
                     IF cat = "Low Performing" THEN R(0, 2) ELSE R(1, 3)]
          [] f = "total_weekly_operational_hours" -> <<>>]

SeparatedTable == [f \in DimensionFeatures |-> Tiers3(R(0, 0), R(1, 2), R(3, 3))]

ConstantTable ==
    [f \in {"total_sunshine_hours", "rainy_days", "nearby_traffic_lights_count"} |->
        Tiers3(R(2, 2), R(2, 2), R(2, 2))]

OverlappingTable == [f \in DimensionFeatures |-> Tiers3(R(0, 1), R(0, 3), R(2, 3))]

ReferenceTables == {MixedTable, SeparatedTable, ConstantTable, OverlappingTable}

\* Every range over the model's values, and every table of one feature whose
\* tiers each have any range or none.
AllRanges == {R(p[1], p[2]) : p \in {v \in Values \X Values : v[1] <= v[2]}}

SingleFeatureTables ==
    {[f \in {"total_sunshine_hours"} |-> t] :
        t \in UNION {[S -> AllRanges] : S \in SUBSET Labels}}

DefaultCategoryStats ==
    Tiers3([q25 |-> 60, median |-> 80, q75 |-> 100],
           [q25 |-> 110, median |-> 130, q75 |-> 150],
           [q25 |-> 160, median |-> 200, q75 |-> 260])

\* The feature mappings a request can carry.
LocationInputs ==
    UNION {[K -> Values \cup {None}] :
              K \in {S \in SUBSET InputKeys : Cardinality(S) <= MaxInputFeatures}}

-----------------------------------------------------------------------------
(* feature_weights_config.py *)

WeatherFeatures ==
    <<"weather_total_precipitation_mm", "weather_rainy_days", "weather_total_snowfall_cm",
      "weather_days_below_freezing", "weather_total_sunshine_hours",
      "weather_days_pleasant_temp", "weather_avg_daily_max_windspeed_ms">>

GasFeatures ==
    <<"nearest_gas_station_distance_miles", "nearest_gas_station_rating",
      "nearest_gas_station_rating_count">>

RetailFeatures ==
    <<"distance_nearest_costco(5 mile)", "distance_nearest_walmart(5 mile)",
      "distance_nearest_target (5 mile)", "other_grocery_count_1mile",
      "count_food_joints_0_5miles (0.5 mile)">>

CompetitionFeatures ==
    <<"competitors_count_4miles", "competitor_1_distance_miles",
      "competitor_1_google_rating", "competitor_1_rating_count">>

DIMENSION_FEATURES ==
    [d \in {"Weather", "Gas", "Retail Proximity", "Competition"} |->
        CASE d = "Weather" -> WeatherFeatures
          [] d = "Gas" -> GasFeatures
          [] d = "Retail Proximity" -> RetailFeatures
          [] d = "Competition" -> CompetitionFeatures]

ConfigFeatures == UNION {Range(DIMENSION_FEATURES[d]) : d \in DOMAIN DIMENSION_FEATURES}

FEATURE_DIRECTION ==
    [f \in ConfigFeatures |->
        IF f \in {"weather_total_precipitation_mm", "weather_days_below_freezing",
                  "competitors_count_4miles"}
        THEN "moderate_is_best"
        ELSE IF f \in {"weather_avg_daily_max_windspeed_ms",
                       "nearest_gas_station_distance_miles",
                       "competitor_1_google_rating", "competitor_1_rating_count",
                       "distance_nearest_costco(5 mile)",
                       "distance_nearest_walmart(5 mile)",
                       "distance_nearest_target (5 mile)"}
        THEN "lower_is_better"
        ELSE "higher_is_better"]

\* Weights are ten-thousandths: 0.15 is 1500, 0.0375 is 375.
DIMENSION_FEATURE_WEIGHTS ==
    [d \in {"Weather", "Gas", "Competition", "Retail Proximity"} |->
        CASE d = "Weather" ->
                 [f \in Range(WeatherFeatures) |->
                     CASE f = "weather_total_precipitation_mm" -> 1500
                       [] f = "weather_rainy_days" -> 2000
                       [] f = "weather_total_snowfall_cm" -> 2000
                       [] f = "weather_days_below_freezing" -> 1000
                       [] f = "weather_total_sunshine_hours" -> 1000
                       [] f = "weather_days_pleasant_temp" -> 1500
                       [] f = "weather_avg_daily_max_windspeed_ms" -> 1000]
          [] d = "Gas" ->
                 [f \in Range(GasFeatures) |->
                     CASE f = "nearest_gas_station_distance_miles" -> 5000
                       [] f = "nearest_gas_station_rating" -> 2000
                       [] f = "nearest_gas_station_rating_count" -> 3000]
          [] d = "Competition" ->
                 [f \in Range(CompetitionFeatures) |->
                     CASE f = "competitors_count_4miles" -> 3500
                       [] f = "competitor_1_google_rating" -> 1500
                       [] f = "competitor_1_distance_miles" -> 3000
                       [] f = "competitor_1_rating_count" -> 2000]
          [] d = "Retail Proximity" ->
                 [f \in Range(RetailFeatures) |->
                     CASE f = "distance_nearest_costco(5 mile)" -> 3000
                       [] f = "distance_nearest_walmart(5 mile)" -> 2000
                       [] f = "distance_nearest_target (5 mile)" -> 1500
                       [] f = "other_grocery_count_1mile" -> 2000
                       [] f = "count_food_joints_0_5miles (0.5 mile)" -> 1500]]

FEATURE_WEIGHTS ==
    [f \in ConfigFeatures |->
        CASE f = "weather_total_precipitation_mm" -> 375
          [] f = "weather_rainy_days" -> 500
          [] f = "weather_total_snowfall_cm" -> 500
          [] f = "weather_days_below_freezing" -> 250
          [] f = "weather_total_sunshine_hours" -> 250
          [] f = "weather_days_pleasant_temp" -> 375
          [] f = "weather_avg_daily_max_windspeed_ms" -> 250
          [] f = "nearest_gas_station_distance_miles" -> 500
          [] f = "nearest_gas_station_rating" -> 200
          [] f = "nearest_gas_station_rating_count" -> 300
          [] f = "competitors_count_4miles" -> 1225
          [] f = "competitor_1_google_rating" -> 525
          [] f = "competitor_1_distance_miles" -> 1050
          [] f = "competitor_1_rating_count" -> 700
          [] f = "distance_nearest_costco(5 mile)" -> 900
          [] f = "distance_nearest_walmart(5 mile)" -> 600
          [] f = "distance_nearest_target (5 mile)" -> 450
          [] f = "other_grocery_count_1mile" -> 600
          [] f = "count_food_joints_0_5miles (0.5 mile)" -> 450]

\* FEATURE_WEIGHTS.get(f, 1.0)
FeatureWeight(f) == IF f \in DOMAIN FEATURE_WEIGHTS THEN FEATURE_WEIGHTS[f] ELSE 10000

-----------------------------------------------------------------------------
(* scoring/approach2_scorer.py: dimension score *)

\* WeightedDimensionScore dividing by the weights of all the dimension's
\* features, which counts an absent feature as a score of 0.
WeightedDimensionScoreAbsentAsZero(dim_weights, features, profiler_scores) ==
    LET present == {f \in Range(features) : f \in DOMAIN profiler_scores}
        w == [f \in Range(features) |->
                 IF f \in DOMAIN dim_weights /\ dim_weights[f] # 0
                 THEN dim_weights[f] ELSE FeatureWeight(f)]
        total_w == SumOver(Range(features), w)
        weighted_sum == SumOver(present, [f \in present |-> w[f] * profiler_scores[f]])
    IN  IF present = {} \/ total_w <= 0 THEN None ELSE RoundHalfEven(weighted_sum, total_w)

\* Lines 250-260 of compute_dimension_score for given weights and features:
\* the weighted average over the features present in profiler_scores, in
\* hundredths (round(x, 2)); None when no weight was collected.
WeightedDimensionScore(dim_weights, features, profiler_scores) ==
    LET present == {f \in Range(features) : f \in DOMAIN profiler_scores}
        w == [f \in present |->
                 IF f \in DOMAIN dim_weights /\ dim_weights[f] # 0
                 THEN dim_weights[f] ELSE FeatureWeight(f)]
        total_w == SumOver(present, w)
        weighted_sum == SumOver(present, [f \in present |-> w[f] * profiler_scores[f]])
    IN  IF total_w <= 0 THEN None ELSE RoundHalfEven(weighted_sum, total_w)

\* compute_dimension_score(profiler_scores, dimension_name)
compute_dimension_score(profiler_scores, dimension_name) ==
    LET dim_weights == IF dimension_name \in DOMAIN DIMENSION_FEATURE_WEIGHTS
                       THEN DIMENSION_FEATURE_WEIGHTS[dimension_name] ELSE <<>>
        features == IF dimension_name \in DOMAIN DIMENSION_FEATURES
                    THEN DIMENSION_FEATURES[dimension_name] ELSE <<>>
    IN  IF features = <<>> THEN None
        ELSE WeightedDimensionScore(dim_weights, features, profiler_scores)

\* compute_overall_score weighting each dimension by the FEATURE_WEIGHTS of
\* its supplied features instead of its configured weight.
compute_overall_score_by_feature_weights(profiler_scores, dimension_weights_for_overall) ==
    IF DOMAIN profiler_scores = {} THEN None
    ELSE IF DOMAIN dimension_weights_for_overall # {}
    THEN LET dim_scores ==
                 {d \in DOMAIN dimension_weights_for_overall :
                     compute_dimension_score(profiler_scores, d) # None}
             w == [d \in dim_scores |->
                      LET present == {f \in Range(DIMENSION_FEATURES[d]) :
                                         f \in DOMAIN profiler_scores}
                      IN  SumOver(present, [f \in present |-> FeatureWeight(f)])]
             total_w == SumOver(dim_scores, w)
         IN  IF dim_scores = {} \/ total_w <= 0 THEN None
             ELSE RoundHalfEven(
                      SumOver(dim_scores,
                              [d \in dim_scores |->
                                  compute_dimension_score(profiler_scores, d) * w[d]]),
                      total_w)
    ELSE LET supplied == DOMAIN profiler_scores
             total_w == SumOver(supplied, [f \in supplied |-> FeatureWeight(f)])
             weighted_sum ==
                 SumOver(supplied, [f \in supplied |-> FeatureWeight(f) * profiler_scores[f]])
         IN  IF total_w <= 0 THEN None ELSE RoundHalfEven(weighted_sum, total_w)

\* compute_overall_score(profiler_scores), with the module-level
\* DIMENSION_WEIGHTS_FOR_OVERALL it reads as second argument: a map from
\* dimension to weight (ten-thousandths), empty when not configured (None or
\* {} in the source, both falsy).  The result is in hundredths, or None.
compute_overall_score(profiler_scores, dimension_weights_for_overall) ==
    IF DOMAIN profiler_scores = {} THEN None
    ELSE IF DOMAIN dimension_weights_for_overall # {}
    THEN LET dim_scores ==
                 {d \in DOMAIN dimension_weights_for_overall :
                     compute_dimension_score(profiler_scores, d) # None}
             total_w == SumOver(dim_scores,
                                [d \in dim_scores |-> dimension_weights_for_overall[d]])
         IN  IF dim_scores = {} \/ total_w <= 0 THEN None
             ELSE RoundHalfEven(
                      SumOver(dim_scores,
                              [d \in dim_scores |->
                                  compute_dimension_score(profiler_scores, d)
                                  * dimension_weights_for_overall[d]]),
                      total_w)
    ELSE LET supplied == DOMAIN profiler_scores
             total_w == SumOver(supplied, [f \in supplied |-> FeatureWeight(f)])
             weighted_sum ==
                 SumOver(supplied, [f \in supplied |-> FeatureWeight(f) * profiler_scores[f]])
         IN  IF total_w <= 0 THEN None ELSE RoundHalfEven(weighted_sum, total_w)

\* DIMENSION_WEIGHTS_FOR_OVERALL as shipped (None) and as it can be set.
DIMENSION_WEIGHTS_FOR_OVERALL == <<>>

OverallWeightConfigs ==
    {DIMENSION_WEIGHTS_FOR_OVERALL,
     [d \in DOMAIN DIMENSION_FEATURES |-> 2500],
     [d \in DOMAIN DIMENSION_FEATURES |->
         CASE d = "Weather" -> 4000 [] d = "Gas" -> 1000
           [] d = "Retail Proximity" -> 2000 [] d = "Competition" -> 3000],
     [d \in {"Weather", "Gas"} |-> IF d = "Weather" THEN 7500 ELSE 2500]}

-----------------------------------------------------------------------------
(* scoringmetric/approach2/main.py: CTOExactProfiler *)

\* The keys of self.lower_is_better that the model's datasets can carry.
CtoLowerIsBetter ==
    {"total_precipitation_mm", "rainy_days", "total_snowfall_cm", "snowy_days",
     "days_below_freezing", "avg_daily_max_windspeed_ms", "competitors_count",
     "competitor_1_distance_miles", "distance_from_nearest_target",
     "distance_from_nearest_costco", "distance_from_nearest_walmart",
     "distance_from_nearest_bestbuy"}

\* percentileofscore with kind='weak': the share of values <= value.
PercentileOfScoreWeak(data, value) ==
    LET n == Len(data)
        right == Cardinality({i \in 1..n : data[i] <= value})
    IN  [num |-> right * 100, den |-> n]

\* percentileofscore with kind='strict': the share of values < value.
PercentileOfScoreStrict(data, value) ==
    LET n == Len(data)
        left == Cardinality({i \in 1..n : data[i] < value})
    IN  [num |-> left * 100, den |-> n]

\* scipy.stats.percentileofscore(data, value, kind='rank') as the exact
\* fraction num / den of a percentage: ties share the average of their ranks.
PercentileOfScore(data, value) ==
    LET n == Len(data)
        left == Cardinality({i \in 1..n : data[i] < value})
        right == Cardinality({i \in 1..n : data[i] <= value})
        plus1 == IF left < right THEN 1 ELSE 0
    IN  [num |-> (left + right + plus1) * 50, den |-> n]

\* _interpret_lower_is_better(percentile), percentile = x / unit
interpret_lower_is_better(x, unit) ==
    IF x <= 10 * unit THEN "Excellent (top 10% - lowest values)"
    ELSE IF x <= 25 * unit THEN "Very Good (top 25% - low values)"
    ELSE IF x <= 50 * unit THEN "Good (below median)"
    ELSE IF x <= 75 * unit THEN "Fair (above median)"
    ELSE IF x <= 90 * unit THEN "Poor (top 25% - high values)"
    ELSE "Very Poor (top 10% - highest values)"

\* _interpret_higher_is_better(percentile), percentile = x / unit
interpret_higher_is_better(x, unit) ==
    IF x >= 90 * unit THEN "Excellent (top 10%)"
    ELSE IF x >= 75 * unit THEN "Very Good (top 25%)"
    ELSE IF x >= 50 * unit THEN "Good (above median)"
    ELSE IF x >= 25 * unit THEN "Fair (below median)"
    ELSE IF x >= 10 * unit THEN "Poor (bottom 25%)"
    ELSE "Very Poor (bottom 10%)"

\* score_feature_cto_method(feature, value); raw_percentile and final_score
\* are hundredths (round(x, 2)).
score_feature_cto_method(feature, value) ==
    IF feature \notin DOMAIN distributions THEN [error |-> "Feature not found"]
    ELSE LET data == distributions[feature]
             raw == PercentileOfScore(data, value)
             lower == feature \in CtoLowerIsBetter
         IN  [feature |-> feature,
              value |-> value,
              raw_percentile |-> RoundHalfEven(100 * raw.num, raw.den),
              final_score |-> IF lower
                              THEN RoundHalfEven(100 * (100 * raw.den - raw.num), raw.den)
                              ELSE RoundHalfEven(100 * raw.num, raw.den),
              direction |-> IF lower THEN "lower_is_better" ELSE "higher_is_better",
              interpretation |-> IF lower
                                 THEN interpret_lower_is_better(raw.num, raw.den)
                                 ELSE interpret_higher_is_better(raw.num, raw.den)]

\* PercentileEngine.score(feature, value) of approach1, for a feature whose
\* configured direction is `direction` ("lower" inverts): hundredths.
percentile_engine_score(data, direction, value) ==
    LET p == PercentileOfScore(data, value)
    IN  IF direction = "lower"
        THEN RoundHalfEven(100 * (100 * p.den - p.num), p.den)
        ELSE RoundHalfEven(100 * p.num, p.den)

-----------------------------------------------------------------------------
(* scoring/approach2_scorer.py: per-feature scoring *)

\* _interpretation_to_category(interpretation): "N/A" for the empty string,
\* else the text before the first " (", on the texts the scorers produce.
interpretation_to_category(interpretation) ==
    CASE interpretation = "" -> "N/A"
      [] interpretation \in {"Excellent (top 10%)", "Excellent (top 10% - lowest values)",
                             "Excellent (near portfolio middle)"} -> "Excellent"
      [] interpretation \in {"Very Good (top 25%)", "Very Good (top 25% - low values)",
                             "Very Good (close to middle)"} -> "Very Good"
      [] interpretation \in {"Good (above median)", "Good (below median)",
                             "Good (moderate)"} -> "Good"
      [] interpretation \in {"Fair (below median)", "Fair (above median)",
                             "Fair (away from middle)"} -> "Fair"
      [] interpretation \in {"Poor (bottom 25%)", "Poor (top 25% - high values)",
                             "Poor (extreme)"} -> "Poor"
      [] interpretation \in {"Very Poor (bottom 10%)",
                             "Very Poor (top 10% - highest values)"} -> "Very Poor"
      [] OTHER -> interpretation

\* _interpret_from_final_score with the bands open at their lower ends
\* (> where the code has >=).
interpret_from_final_score_open_bands(final_score) ==
    IF final_score > 9000 THEN "Excellent (top 10%)"
    ELSE IF final_score > 7500 THEN "Very Good (top 25%)"
    ELSE IF final_score > 5000 THEN "Good (above median)"
    ELSE IF final_score > 2500 THEN "Fair (below median)"
    ELSE IF final_score > 1000 THEN "Poor (bottom 25%)"
    ELSE "Very Poor (bottom 10%)"

\* _interpret_from_final_score(final_score), final_score in hundredths
interpret_from_final_score(final_score) ==
    IF final_score >= 9000 THEN "Excellent (top 10%)"
    ELSE IF final_score >= 7500 THEN "Very Good (top 25%)"
    ELSE IF final_score >= 5000 THEN "Good (above median)"
    ELSE IF final_score >= 2500 THEN "Fair (below median)"
    ELSE IF final_score >= 1000 THEN "Poor (bottom 25%)"
    ELSE "Very Poor (bottom 10%)"

\* ModerateInterpretation with each band open at its upper end.
ModerateInterpretationOpenBands(dist) ==
    IF dist < 1000 THEN "Excellent (near portfolio middle)"
    ELSE IF dist < 2500 THEN "Very Good (close to middle)"
    ELSE IF dist < 4000 THEN "Good (moderate)"
    ELSE IF dist < 5000 THEN "Fair (away from middle)"
    ELSE "Poor (extreme)"

\* The moderate_is_best branch's text for dist = |raw - 50|, in hundredths.
ModerateInterpretation(dist) ==
    IF dist <= 1000 THEN "Excellent (near portfolio middle)"
    ELSE IF dist <= 2500 THEN "Very Good (close to middle)"
    ELSE IF dist <= 4000 THEN "Good (moderate)"
    ELSE IF dist <= 5000 THEN "Fair (away from middle)"
    ELSE "Poor (extreme)"

\* _apply_direction_override whose lower_is_better branch bands the raw
\* percentile instead of the directional score 100 - raw.
apply_direction_override_bands_raw(profiler_key, score_info) ==
    IF profiler_key \notin DOMAIN FEATURE_DIRECTION THEN score_info
    ELSE LET direction_override == FEATURE_DIRECTION[profiler_key]
             raw == score_info.raw_percentile
             dist == Abs(raw - 5000)
         IN  CASE direction_override = "moderate_is_best" ->
                      [score_info EXCEPT
                          !.final_score = Max2(0, 10000 - 2 * dist),
                          !.direction = "moderate_is_best",
                          !.interpretation = ModerateInterpretation(dist)]
               [] direction_override = "lower_is_better" ->
                      [score_info EXCEPT
                          !.final_score = 10000 - raw,
                          !.direction = "lower_is_better",
                          !.interpretation = interpret_from_final_score(raw)]
               [] direction_override = "higher_is_better" ->
                      [score_info EXCEPT
                          !.final_score = raw,
                          !.direction = "higher_is_better",
                          !.interpretation = interpret_from_final_score(raw)]
               [] OTHER -> score_info

\* _apply_direction_override whose moderate_is_best score falls off at half
\* the rate: max(0, 100 - |raw - 50|).
apply_direction_override_half_rate(profiler_key, score_info) ==
    IF profiler_key \notin DOMAIN FEATURE_DIRECTION THEN score_info
    ELSE LET direction_override == FEATURE_DIRECTION[profiler_key]
             raw == score_info.raw_percentile
             dist == Abs(raw - 5000)
         IN  CASE direction_override = "moderate_is_best" ->
                      [score_info EXCEPT
                          !.final_score = Max2(0, 10000 - dist),
                          !.direction = "moderate_is_best",
                          !.interpretation = ModerateInterpretation(dist)]
               [] direction_override = "lower_is_better" ->
                      [score_info EXCEPT
                          !.final_score = 10000 - raw,
                          !.direction = "lower_is_better",
                          !.interpretation = interpret_from_final_score(10000 - raw)]
               [] direction_override = "higher_is_better" ->
                      [score_info EXCEPT
                          !.final_score = raw,
                          !.direction = "higher_is_better",
                          !.interpretation = interpret_from_final_score(raw)]
               [] OTHER -> score_info

\* _apply_direction_override taking the signed distance raw - 50 from the
\* middle instead of its absolute value.
apply_direction_override_signed_dist(profiler_key, score_info) ==
    IF profiler_key \notin DOMAIN FEATURE_DIRECTION THEN score_info
    ELSE LET direction_override == FEATURE_DIRECTION[profiler_key]
             raw == score_info.raw_percentile
             dist == raw - 5000
         IN  CASE direction_override = "moderate_is_best" ->
                      [score_info EXCEPT
                          !.final_score = Max2(0, 10000 - 2 * dist),
                          !.direction = "moderate_is_best",
                          !.interpretation = ModerateInterpretation(dist)]
               [] direction_override = "lower_is_better" ->
                      [score_info EXCEPT
                          !.final_score = 10000 - raw,
                          !.direction = "lower_is_better",
                          !.interpretation = interpret_from_final_score(10000 - raw)]
               [] direction_override = "higher_is_better" ->
                      [score_info EXCEPT
                          !.final_score = raw,
                          !.direction = "higher_is_better",
                          !.interpretation = interpret_from_final_score(raw)]
               [] OTHER -> score_info

\* _apply_direction_override(profiler_key, score_info)
apply_direction_override(profiler_key, score_info) ==
    IF profiler_key \notin DOMAIN FEATURE_DIRECTION THEN score_info
    ELSE LET direction_override == FEATURE_DIRECTION[profiler_key]
             raw == score_info.raw_percentile
             dist == Abs(raw - 5000)
         IN  CASE direction_override = "moderate_is_best" ->
                      [score_info EXCEPT
                          !.final_score = Max2(0, 10000 - 2 * dist),
                          !.direction = "moderate_is_best",
                          !.interpretation = ModerateInterpretation(dist)]
               [] direction_override = "lower_is_better" ->
                      [score_info EXCEPT
                          !.final_score = 10000 - raw,
                          !.direction = "lower_is_better",
                          !.interpretation = interpret_from_final_score(10000 - raw)]
               [] direction_override = "higher_is_better" ->
                      [score_info EXCEPT
                          !.final_score = raw,
                          !.direction = "higher_is_better",
                          !.interpretation = interpret_from_final_score(raw)]
               [] OTHER -> score_info

\* score_feature_with_config(profiler_key, value): None for a feature the
\* profiler has no distribution for.
score_feature_with_config(profiler_key, value) ==
    LET info == score_feature_cto_method(profiler_key, value)
    IN  IF "error" \in DOMAIN info THEN [none |-> TRUE]
        ELSE apply_direction_override(profiler_key, info)

-----------------------------------------------------------------------------
(* The lazily built singletons: server/routes.py _get_profilers and
   scoring/approach2_scorer.py _get_profiler.  Endpoints are plain `def`
   functions, which the server runs on a pool of threads; a thread can be
   preempted between any two statements, and constructing a profiler (reading
   the dataset) takes long.  A profiler object is named by the count of
   objects of its kind constructed up to and including it; 0 is None. *)

Threads == 1..NumThreads

NoDimProfiler == [id |-> 0, profiler |-> 0]

\* A thread that runs no classification call.
NoFrame == [pc |-> "idle"]

IdleThread == [pc |-> "idle", fn |-> "none", calls |-> 0, local |-> 0,
               local_dim |-> NoDimProfiler, ret |-> 0, ret_dim |-> NoDimProfiler]

Unloaded == [profiler |-> 0, dim_profiler |-> NoDimProfiler, cto_profiler |-> 0]

\* The globals after one undisturbed first call of each getter.
Loaded == [profiler |-> 1, dim_profiler |-> [id |-> 1, profiler |-> 1], cto_profiler |-> 1]

Frame == UNCHANGED <<feature_ranges, category_stats, distributions, call, history, frames>>

\* A request thread enters _get_profilers() or _get_profiler().
CallGetter(t) ==
    /\ thread[t].pc = "idle"
    /\ thread[t].calls < MaxCalls
    /\ \E fn \in {"get_profilers", "get_profiler"} :
           thread' = [thread EXCEPT ![t] =
                         [IdleThread EXCEPT !.pc = "check", !.fn = fn,
                                            !.calls = thread[t].calls + 1]]
    /\ UNCHANGED <<singleton, built>>
    /\ Frame

\* routes.py 582: if _profiler_singleton is None
GetProfilersCheck(t) ==
    /\ thread[t].pc = "check" /\ thread[t].fn = "get_profilers"
    /\ thread' = [thread EXCEPT ![t].pc =
                     IF singleton.profiler = 0 THEN "build_q" ELSE "load_q"]
    /\ UNCHANGED <<singleton, built>>
    /\ Frame

\* routes.py 583, right-hand side: QuantileProfiler() reads the dataset and
\* either returns a new profiler or raises.
GetProfilersBuild(t) ==
    /\ thread[t].pc = "build_q"
    /\ \/ /\ built' = [built EXCEPT !.quantile = @ + 1]
          /\ thread' = [thread EXCEPT ![t].pc = "store_q",
                                      ![t].local = built.quantile + 1]
       \/ /\ thread' = [thread EXCEPT ![t].pc = "raised"]
          /\ UNCHANGED built
    /\ UNCHANGED singleton
    /\ Frame

\* routes.py 583, the assignment to the global
GetProfilersStore(t) ==
    /\ thread[t].pc = "store_q"
    /\ singleton' = [singleton EXCEPT !.profiler = thread[t].local]
    /\ thread' = [thread EXCEPT ![t].pc = "build_d"]
    /\ UNCHANGED built
    /\ Frame

\* routes.py 584, right-hand side: DimensionProfiler(_profiler_singleton)
\* wraps whatever the global holds now.
GetProfilersBuildDim(t) ==
    /\ thread[t].pc = "build_d"
    /\ built' = [built EXCEPT !.dimension = @ + 1]
    /\ thread' = [thread EXCEPT ![t].pc = "store_d",
                                ![t].local_dim = [id |-> built.dimension + 1,
                                                  profiler |-> singleton.profiler]]
    /\ UNCHANGED singleton
    /\ Frame

\* routes.py 584, the assignment to the global
GetProfilersStoreDim(t) ==
    /\ thread[t].pc = "store_d"
    /\ singleton' = [singleton EXCEPT !.dim_profiler = thread[t].local_dim]
    /\ thread' = [thread EXCEPT ![t].pc = "load_q"]
    /\ UNCHANGED built
    /\ Frame

\* routes.py 585: the two globals are read one after the other
GetProfilersLoad(t) ==
    /\ thread[t].pc = "load_q"
    /\ thread' = [thread EXCEPT ![t].pc = "load_d", ![t].ret = singleton.profiler]
    /\ UNCHANGED <<singleton, built>>
    /\ Frame

GetProfilersReturn(t) ==
    /\ thread[t].pc = "load_d"
    /\ thread' = [thread EXCEPT ![t].pc = "done", ![t].ret_dim = singleton.dim_profiler]
    /\ UNCHANGED <<singleton, built>>
    /\ Frame

\* approach2_scorer.py 71: if _profiler is None
GetProfilerCheck(t) ==
    /\ thread[t].pc = "check" /\ thread[t].fn = "get_profiler"
    /\ thread' = [thread EXCEPT ![t].pc =
                     IF singleton.cto_profiler = 0 THEN "build_c" ELSE "load_c"]
    /\ UNCHANGED <<singleton, built>>
    /\ Frame

\* approach2_scorer.py 72-85: find and read the workbook, construct
\* CTOExactProfiler(df); FileNotFoundError when no workbook is there.
GetProfilerBuild(t) ==
    /\ thread[t].pc = "build_c"
    /\ \/ /\ built' = [built EXCEPT !.cto = @ + 1]
          /\ thread' = [thread EXCEPT ![t].pc = "store_c", ![t].local = built.cto + 1]
       \/ /\ thread' = [thread EXCEPT ![t].pc = "raised"]
          /\ UNCHANGED built
    /\ UNCHANGED singleton
    /\ Frame

\* approach2_scorer.py 85, the assignment to the global
GetProfilerStore(t) ==
    /\ thread[t].pc = "store_c"
    /\ singleton' = [singleton EXCEPT !.cto_profiler = thread[t].local]
    /\ thread' = [thread EXCEPT ![t].pc = "load_c"]
    /\ UNCHANGED built
    /\ Frame

\* approach2_scorer.py 86: return _profiler
GetProfilerReturn(t) ==
    /\ thread[t].pc = "load_c"
    /\ thread' = [thread EXCEPT ![t].pc = "done", ![t].ret = singleton.cto_profiler]
    /\ UNCHANGED <<singleton, built>>
    /\ Frame

\* The caller is done with what it got (or with the exception) and the thread
\* goes back to the pool; what it was handed stays on record until its next call.
Release(t) ==
    /\ thread[t].pc \in {"done", "raised"}
    /\ thread' = [thread EXCEPT ![t].pc = "idle"]
    /\ UNCHANGED <<singleton, built>>
    /\ Frame

-----------------------------------------------------------------------------
(* Requests: one call of an operation at a time, computed whole, then handed
   back.  call.ret is exactly what the operation returns. *)

Idle == [pc |-> "idle", op |-> "none", args |-> <<>>, ret |-> <<>>]

Done(op, args, ret) == [pc |-> "done", op |-> op, args |-> args, ret |-> ret]

Quiet ==
    UNCHANGED <<feature_ranges, category_stats, distributions, singleton, thread, built,
                history, frames>>

\* Historical samples of one feature: the non-null values.  Only counts of the
\* sample are ever taken, so each multiset is held once, in ascending order.
Samples ==
    {s \in UNION {[1..n -> Values] : n \in 1..MaxSampleSize} :
        \A i \in 1..(Len(s) - 1) : s[i] <= s[i + 1]}

\* Columns of the approach-2 workbook that the model scores.
RankFeatures ==
    {"competitor_1_distance_miles", "weather_total_precipitation_mm",
     "nearest_gas_station_distance_miles", "weather_rainy_days",
     "distance_from_nearest_costco", "total_sunshine_hours"}

DefaultDistributions == [f \in RankFeatures |-> <<1, 2, 3, 4, 5, 6, 7, 8, 9, 10>>]

\* Dimension names a caller may pass: the quantile dimensions and the
\* approach-2 dimension "Gas" (unknown to DIMENSION_GROUPS and vice versa).
DimensionNames == Range(DimensionOrder) \cup {"Gas"}

\* Per-dimension results handed to majority_vote: every dimension with a tier
\* label, "Insufficient Data" or no "predicted" key (read as ""), in
\* DIMENSION_GROUPS order or in the reverse order.
Reverse(s) == [i \in 1..Len(s) |-> s[Len(s) + 1 - i]]

DimResultInputs ==
    LET preds == [Range(DimensionOrder) -> Labels \cup {"Insufficient Data", ""}]
        items(order, p) == [i \in 1..Len(order) |->
                               [dim |-> order[i], res |-> [predicted |-> p[order[i]]]]]
    IN  {items(order, p) : order \in {DimensionOrder, Reverse(DimensionOrder)}, p \in preds}

\* 0-100 scores in hundredths handed to the aggregation functions.
ScoreChoices == {0, 6000, 8000, 10000}

ProfilerScoreInputs ==
    UNION {[K -> ScoreChoices] :
              K \in {S \in SUBSET (ConfigFeatures \cup {"unknown_feature"}) :
                        Cardinality(S) <= MaxScoredFeatures}}

Predict ==
    /\ call.pc = "idle"
    /\ \E location_features \in LocationInputs, return_details \in BOOLEAN :
           call' = Done("predict",
                        [location_features |-> location_features,
                         return_details |-> return_details],
                        predict(location_features, return_details))
    /\ Quiet

ScoreDimension ==
    /\ call.pc = "idle"
    /\ \E dimension \in DimensionNames, location_features \in LocationInputs :
           call' = Done("score_dimension",
                        [dimension |-> dimension, location_features |-> location_features],
                        score_dimension(dimension, location_features))
    /\ Quiet

ScoreAllDimensions ==
    /\ call.pc = "idle"
    /\ \E location_features \in LocationInputs :
           call' = Done("score_all_dimensions",
                        [location_features |-> location_features],
                        score_all_dimensions(location_features))
    /\ Quiet

MajorityVote ==
    /\ call.pc = "idle"
    /\ \E dim_results \in DimResultInputs :
           call' = Done("majority_vote", [dim_results |-> dim_results],
                        majority_vote(dim_results))
    /\ Quiet

GetFullProfilingSummary ==
    /\ call.pc = "idle"
    /\ \E feature_values \in LocationInputs :
           call' = Done("get_full_profiling_summary",
                        [feature_values |-> feature_values],
                        get_full_profiling_summary(feature_values))
    /\ Quiet

ScoreFeature ==
    /\ call.pc = "idle"
    /\ \E feature \in {"total_sunshine_hours", "unknown_feature"}, value \in Values :
           call' = Done("score_feature", [feature |-> feature, value |-> value],
                        score_feature(feature, value))
    /\ Quiet

SiteScoreFeature ==
    /\ call.pc = "idle"
    /\ \E feature \in {"total_sunshine_hours", "unknown_feature"}, value \in Values,
          category \in Labels :
           call' = Done("site_score_feature",
                        [feature |-> feature, value |-> value, category |-> category],
                        site_score_feature(feature, value, category))
    /\ Quiet

ComputeDimensionScore ==
    /\ call.pc = "idle"
    /\ \E profiler_scores \in ProfilerScoreInputs,
          dimension_name \in DOMAIN DIMENSION_FEATURES \cup {"Traffic"} :
           call' = Done("compute_dimension_score",
                        [profiler_scores |-> profiler_scores,
                         dimension_name |-> dimension_name],
                        compute_dimension_score(profiler_scores, dimension_name))
    /\ Quiet

ScoreFeatureCtoMethod ==
    /\ call.pc = "idle"
    /\ \E feature \in RankFeatures \cup {"nonexistent_feature"}, value \in Values :
           call' = Done("score_feature_cto_method", [feature |-> feature, value |-> value],
                        score_feature_cto_method(feature, value))
    /\ Quiet

ScoreFeatureWithConfig ==
    /\ call.pc = "idle"
    /\ \E profiler_key \in RankFeatures \cup {"nonexistent_feature"}, value \in Values :
           call' = Done("score_feature_with_config",
                        [profiler_key |-> profiler_key, value |-> value],
                        score_feature_with_config(profiler_key, value))
    /\ Quiet

PercentileEngineScore ==
    /\ call.pc = "idle"
    /\ \E feature \in RankFeatures, direction \in {"lower", "higher"}, value \in Values :
           call' = Done("percentile_engine_score",
                        [feature |-> feature, direction |-> direction, value |-> value],
                        percentile_engine_score(distributions[feature], direction, value))
    /\ Quiet

\* The response is handed to the caller.
Return ==
    /\ call.pc = "done"
    /\ call' = Idle
    /\ Quiet

-----------------------------------------------------------------------------
(* Specifications *)

InitCommon ==
    /\ category_stats = DefaultCategoryStats
    /\ call = Idle
    /\ singleton = Loaded
    /\ thread = [t \in Threads |-> IdleThread]
    /\ built = [quantile |-> 1, dimension |-> 1, cto |-> 1]
    /\ history = <<>>
    /\ frames = [t \in Threads |-> NoFrame]

\* Site classification on a loaded reference table: the quantile profiler, the
\* per-dimension profiler, the votes and the weighted dimension scores.
Init ==
    /\ feature_ranges \in ReferenceTables
    /\ distributions = DefaultDistributions
    /\ InitCommon

Next ==
    \/ Predict
    \/ ScoreDimension
    \/ ScoreAllDimensions
    \/ GetFullProfilingSummary
    \/ MajorityVote
    \/ ComputeDimensionScore
    \/ Return

Spec == Init /\ [][Next]_vars

\* score_feature on every range a tier can have.
InitFeature ==
    /\ feature_ranges \in SingleFeatureTables
    /\ distributions = DefaultDistributions
    /\ InitCommon

NextFeature == ScoreFeature \/ SiteScoreFeature \/ Return

SpecFeature == InitFeature /\ [][NextFeature]_vars

\* Percentile-rank scoring on every historical sample.
InitRank ==
    /\ feature_ranges = MixedTable
    /\ \E sample \in Samples : distributions = [f \in RankFeatures |-> sample]
    /\ InitCommon

NextRank ==
    \/ ScoreFeatureCtoMethod
    \/ ScoreFeatureWithConfig
    \/ PercentileEngineScore
    \/ Return

SpecRank == InitRank /\ [][NextRank]_vars

\* Concurrent first calls of the profiler getters.
InitSingleton ==
    /\ feature_ranges = MixedTable
    /\ category_stats = DefaultCategoryStats
    /\ distributions = DefaultDistributions
    /\ call = Idle
    /\ singleton = Unloaded
    /\ thread = [t \in Threads |-> IdleThread]
    /\ built = [quantile |-> 0, dimension |-> 0, cto |-> 0]
    /\ history = <<>>
    /\ frames = [t \in Threads |-> NoFrame]

NextSingleton ==
    \E t \in Threads :
        \/ CallGetter(t)
        \/ GetProfilersCheck(t)
        \/ GetProfilersBuild(t)
        \/ GetProfilersStore(t)
        \/ GetProfilersBuildDim(t)
        \/ GetProfilersStoreDim(t)
        \/ GetProfilersLoad(t)
        \/ GetProfilersReturn(t)
        \/ GetProfilerCheck(t)
        \/ GetProfilerBuild(t)
        \/ GetProfilerStore(t)
        \/ GetProfilerReturn(t)
        \/ Release(t)

SpecSingleton == InitSingleton /\ [][NextSingleton]_vars

-----------------------------------------------------------------------------
(* Banding of percentiles and scores: every percentile of the two-decimal grid
   through the interpretation functions and the direction override. *)

\* Percentiles and 0-100 scores as the scorers round them: hundredths.
Percentiles == 0..10000

\* What score_feature_cto_method hands on for a feature at raw percentile raw.
CtoScoreInfo(feature, raw) ==
    LET lower == feature \in CtoLowerIsBetter
    IN  [feature |-> feature,
         value |-> 0,
         raw_percentile |-> raw,
         final_score |-> IF lower THEN 10000 - raw ELSE raw,
         direction |-> IF lower THEN "lower_is_better" ELSE "higher_is_better",
         interpretation |-> IF lower THEN interpret_lower_is_better(raw, 100)
                            ELSE interpret_higher_is_better(raw, 100)]

InterpretFromFinalScore ==
    /\ call.pc = "idle"
    /\ \E final_score \in Percentiles :
           call' = Done("interpret_from_final_score", [final_score |-> final_score],
                        interpret_from_final_score(final_score))
    /\ Quiet

InterpretHigherIsBetter ==
    /\ call.pc = "idle"
    /\ \E percentile \in Percentiles :
           call' = Done("interpret_higher_is_better", [percentile |-> percentile],
                        interpret_higher_is_better(percentile, 100))
    /\ Quiet

InterpretLowerIsBetter ==
    /\ call.pc = "idle"
    /\ \E percentile \in Percentiles :
           call' = Done("interpret_lower_is_better", [percentile |-> percentile],
                        interpret_lower_is_better(percentile, 100))
    /\ Quiet

ApplyDirectionOverride ==
    /\ call.pc = "idle"
    /\ \E profiler_key \in RankFeatures, raw \in Percentiles :
           call' = Done("apply_direction_override",
                        [profiler_key |-> profiler_key,
                         score_info |-> CtoScoreInfo(profiler_key, raw)],
                        apply_direction_override(profiler_key,
                                                 CtoScoreInfo(profiler_key, raw)))
    /\ Quiet

InitBand ==
    /\ feature_ranges = MixedTable
    /\ distributions = DefaultDistributions
    /\ InitCommon

NextBand ==
    \/ InterpretFromFinalScore
    \/ InterpretHigherIsBetter
    \/ InterpretLowerIsBetter
    \/ ApplyDirectionOverride
    \/ Return

SpecBand == InitBand /\ [][NextBand]_vars

-----------------------------------------------------------------------------
(* Values as they arrive: a task's feature_values and the flat API data can
   hold, next to numbers and None, a value float() cannot convert (a string
   such as "n/a").  float() is applied at profiler_engine.py 255 and 302,
   dimension_profiler.py 88 and approach2_scorer.py 206 and 230, in no case
   inside a try. *)

NonNumeric == -2         \* a value that float() rejects with ValueError

ValueError == [raised |-> "ValueError"]

\* float(location_features[feat]) raises for one of the features walked.
ConversionRaises(location_features, features) ==
    \E feat \in features :
        feat \in DOMAIN location_features /\ location_features[feat] = NonNumeric

\* QuantileProfiler.score_location with the conversion of line 255.
score_location_converting(location_features, feature_subset) ==
    IF ConversionRaises(location_features,
                        FeaturesToScore(location_features, feature_subset))
    THEN ValueError
    ELSE score_location(location_features, feature_subset)

\* QuantileProfiler.predict: score_location converts every non-null value.
predict_converting(location_features, return_details) ==
    IF ConversionRaises(location_features, DOMAIN location_features)
    THEN ValueError
    ELSE predict(location_features, return_details)

\* DimensionProfiler.score_dimension: only the relevant features are converted.
score_dimension_converting(dimension, location_features) ==
    IF ConversionRaises(location_features, Range(Relevant(dimension, location_features)))
    THEN ValueError
    ELSE score_dimension(dimension, location_features)

\* WEATHER_API_TO_PROFILER
WEATHER_API_TO_PROFILER ==
    [k \in {"total_precipitation_mm", "rainy_days", "total_snowfall_cm",
            "days_below_freezing", "total_sunshine_hours", "days_pleasant_temp",
            "avg_daily_max_windspeed_ms"} |->
        CASE k = "total_precipitation_mm" -> "weather_total_precipitation_mm"
          [] k = "rainy_days" -> "weather_rainy_days"
          [] k = "total_snowfall_cm" -> "weather_total_snowfall_cm"
          [] k = "days_below_freezing" -> "weather_days_below_freezing"
          [] k = "total_sunshine_hours" -> "weather_total_sunshine_hours"
          [] k = "days_pleasant_temp" -> "weather_days_pleasant_temp"
          [] k = "avg_daily_max_windspeed_ms" -> "weather_avg_daily_max_windspeed_ms"]

\* api_to_profiler_map.get(api_key, api_key)
ProfilerKey(api_to_profiler_map, api_key) ==
    IF api_key \in DOMAIN api_to_profiler_map THEN api_to_profiler_map[api_key] ELSE api_key

\* enrich_features_with_categories(flat_data, api_to_profiler_map)
enrich_features_with_categories(flat_data, api_to_profiler_map) ==
    IF ConversionRaises(flat_data, DOMAIN flat_data) THEN ValueError
    ELSE [api_key \in DOMAIN flat_data |->
             LET value == flat_data[api_key]
                 score_info == score_feature_with_config(
                                   ProfilerKey(api_to_profiler_map, api_key), value)
             IN  IF value = None \/ "none" \in DOMAIN score_info
                 THEN [value |-> value, category |-> "N/A"]
                 ELSE [value |-> value,
                       category |-> interpretation_to_category(score_info.interpretation)]]

\* get_feature_final_scores(flat_data, api_to_profiler_map)
get_feature_final_scores(flat_data, api_to_profiler_map) ==
    IF ConversionRaises(flat_data, DOMAIN flat_data) THEN ValueError
    ELSE LET scored == {api_key \in DOMAIN flat_data :
                           /\ flat_data[api_key] # None
                           /\ "none" \notin DOMAIN score_feature_with_config(
                                  ProfilerKey(api_to_profiler_map, api_key),
                                  flat_data[api_key])}
             ApiKey(profiler_key) ==
                 CHOOSE api_key \in scored :
                     ProfilerKey(api_to_profiler_map, api_key) = profiler_key
         IN  [profiler_key \in {ProfilerKey(api_to_profiler_map, k) : k \in scored} |->
                 score_feature_with_config(profiler_key,
                                           flat_data[ApiKey(profiler_key)]).final_score]

\* The mappings a task or an API response can carry.
RawLocationInputs ==
    UNION {[K -> Values \cup {None, NonNumeric}] :
              K \in {S \in SUBSET InputKeys : Cardinality(S) <= MaxInputFeatures}}

FlatDataKeys == {"total_precipitation_mm", "rainy_days", "total_snowfall_cm", "unknown_api_key"}

FlatDataInputs ==
    UNION {[K -> Values \cup {None, NonNumeric}] :
              K \in {S \in SUBSET FlatDataKeys : Cardinality(S) <= MaxInputFeatures}}

PredictRaw ==
    /\ call.pc = "idle"
    /\ \E location_features \in RawLocationInputs, return_details \in BOOLEAN :
           call' = Done("predict",
                        [location_features |-> location_features,
                         return_details |-> return_details],
                        predict_converting(location_features, return_details))
    /\ Quiet

ScoreLocationRaw ==
    /\ call.pc = "idle"
    /\ \E location_features \in RawLocationInputs :
           call' = Done("score_location",
                        [location_features |-> location_features, feature_subset |-> <<>>],
                        score_location_converting(location_features, <<>>))
    /\ Quiet

ScoreDimensionRaw ==
    /\ call.pc = "idle"
    /\ \E dimension \in DimensionNames, location_features \in RawLocationInputs :
           call' = Done("score_dimension",
                        [dimension |-> dimension, location_features |-> location_features],
                        score_dimension_converting(dimension, location_features))
    /\ Quiet

EnrichFeaturesWithCategories ==
    /\ call.pc = "idle"
    /\ \E flat_data \in FlatDataInputs :
           call' = Done("enrich_features_with_categories", [flat_data |-> flat_data],
                        enrich_features_with_categories(flat_data, WEATHER_API_TO_PROFILER))
    /\ Quiet

GetFeatureFinalScores ==
    /\ call.pc = "idle"
    /\ \E flat_data \in FlatDataInputs :
           call' = Done("get_feature_final_scores", [flat_data |-> flat_data],
                        get_feature_final_scores(flat_data, WEATHER_API_TO_PROFILER))
    /\ Quiet

\* Requests with values as they arrive, on a loaded reference table.
InitRaw ==
    /\ feature_ranges \in ReferenceTables
    /\ distributions = DefaultDistributions
    /\ InitCommon

NextRaw ==
    \/ PredictRaw
    \/ ScoreLocationRaw
    \/ ScoreDimensionRaw
    \/ EnrichFeaturesWithCategories
    \/ GetFeatureFinalScores
    \/ Return

SpecRaw == InitRaw /\ [][NextRaw]_vars

-----------------------------------------------------------------------------
(* scoringmetric/approach2/main.py: CTOExactProfiler.score_location, and the
   scorers on feature names the reference data does not know *)

\* Keys of the mapping handed to CTOExactProfiler.score_location, in the
\* order the caller inserted them (the order .items() walks).
CtoInputOrder == <<"total_sunshine_hours", "distance_from_nearest_costco", "unknown_feature">>

\* feature_cols: the numeric columns, each of which gets a distribution.
feature_cols == DOMAIN distributions

\* sorted(items, key=final_score (0 when absent), reverse=True): a stable sort,
\* so among equal scores the earlier item of the mapping comes first.
RECURSIVE SortedFeatures(_, _)
SortedFeatures(keys, feature_scores) ==
    IF keys = <<>> THEN <<>>
    ELSE LET key_of == [f \in Range(keys) |->
                           IF "final_score" \in DOMAIN feature_scores[f]
                           THEN feature_scores[f].final_score ELSE 0]
             first == MaxKey(keys, key_of)
         IN  <<first>> \o SortedFeatures(SelectSeq(keys, LAMBDA f : f # first),
                                         feature_scores)

\* s[:10] and reversed(s[-10:]) of a list.
FirstTen(s) == SubSeq(s, 1, Min2(Len(s), 10))
LastTenReversed(s) ==
    LET n == Min2(Len(s), 10) IN [i \in 1..n |-> s[Len(s) + 1 - i]]

\* score_location without the membership test of line 308: every key of the
\* mapping is scored and stored.
cto_score_location_unfiltered(location_features) ==
    LET feature_scores == [feature \in DOMAIN location_features |->
                              score_feature_cto_method(feature, location_features[feature])]
        with_score == {f \in DOMAIN feature_scores : "final_score" \in DOMAIN feature_scores[f]}
        sorted_features ==
            SortedFeatures(SelectSeq(CtoInputOrder, LAMBDA f : f \in DOMAIN feature_scores),
                           feature_scores)
    IN  [overall_score |-> IF with_score = {} THEN 0
                           ELSE RoundHalfEven(
                                    SumOver(with_score,
                                            [f \in with_score |-> feature_scores[f].final_score]),
                                    Cardinality(with_score)),
         feature_scores |-> feature_scores,
         top_strengths |-> FirstTen(sorted_features),
         top_weaknesses |-> LastTenReversed(sorted_features),
         total_features |-> Cardinality(DOMAIN feature_scores)]

\* CTOExactProfiler.score_location(location_features): scores in hundredths,
\* the two lists as the feature names in their order.
cto_score_location(location_features) ==
    LET known == {feature \in DOMAIN location_features : feature \in feature_cols}
        feature_scores == [feature \in known |->
                              score_feature_cto_method(feature, location_features[feature])]
        with_score == {f \in known : "final_score" \in DOMAIN feature_scores[f]}
        sorted_features ==
            SortedFeatures(SelectSeq(CtoInputOrder, LAMBDA f : f \in known), feature_scores)
    IN  [overall_score |-> IF with_score = {} THEN 0
                           ELSE RoundHalfEven(
                                    SumOver(with_score,
                                            [f \in with_score |-> feature_scores[f].final_score]),
                                    Cardinality(with_score)),
         feature_scores |-> feature_scores,
         top_strengths |-> FirstTen(sorted_features),
         top_weaknesses |-> LastTenReversed(sorted_features),
         total_features |-> Cardinality(known)]

\* The numeric mappings a caller hands to CTOExactProfiler.score_location.
CtoLocationInputs ==
    UNION {[K -> Values] :
              K \in {S \in SUBSET Range(CtoInputOrder) : Cardinality(S) <= MaxInputFeatures}}

\* A sample in which values repeat.
TiedDistributions == [f \in RankFeatures |-> <<0, 1, 1, 2, 2, 2, 3, 5>>]

CtoScoreLocation ==
    /\ call.pc = "idle"
    /\ \E location_features \in CtoLocationInputs :
           call' = Done("cto_score_location", [location_features |-> location_features],
                        cto_score_location(location_features))
    /\ Quiet

\* Both profilers loaded; requests that may name features without reference
\* data.
InitUnknown ==
    /\ feature_ranges \in ReferenceTables
    /\ distributions \in {DefaultDistributions, TiedDistributions}
    /\ InitCommon

NextUnknown ==
    \/ ScoreFeatureCtoMethod
    \/ CtoScoreLocation
    \/ ScoreFeature
    \/ Predict
    \/ Return

SpecUnknown == InitUnknown /\ [][NextUnknown]_vars

-----------------------------------------------------------------------------
(* The overall score, and classification calls made one after another *)

ComputeOverallScore ==
    /\ call.pc = "idle"
    /\ \E profiler_scores \in ProfilerScoreInputs,
          dimension_weights_for_overall \in OverallWeightConfigs :
           call' = Done("compute_overall_score",
                        [profiler_scores |-> profiler_scores,
                         dimension_weights_for_overall |-> dimension_weights_for_overall],
                        compute_overall_score(profiler_scores,
                                              dimension_weights_for_overall))
    /\ Quiet

InitOverall ==
    /\ feature_ranges = MixedTable
    /\ distributions = DefaultDistributions
    /\ InitCommon

NextOverall ==
    \/ ComputeOverallScore
    \/ ComputeDimensionScore
    \/ Return

SpecOverall == InitOverall /\ [][NextOverall]_vars

\* Feature mappings and feature scores of a client that repeats its requests.
RepeatLocationInputs ==
    {<<>>,
     [f \in {"total_sunshine_hours"} |-> 0],
     [f \in {"total_sunshine_hours", "competitors_count"} |->
         IF f = "total_sunshine_hours" THEN MaxValue ELSE 1],
     [f \in {"rainy_days", "nearby_traffic_lights_count"} |->
         IF f = "rainy_days" THEN None ELSE 1]}

RepeatScoreInputs ==
    {<<>>,
     [f \in {"weather_rainy_days"} |-> 6000],
     [f \in {"weather_rainy_days", "competitors_count_4miles"} |->
         IF f = "weather_rainy_days" THEN 8000 ELSE 0],
     [f \in {"unknown_feature", "nearest_gas_station_rating"} |->
         IF f = "unknown_feature" THEN 0 ELSE 6000]}

\* One classification call of any kind, on the profiler as it is.
PredictAgain ==
    /\ call.pc = "idle"
    /\ \E location_features \in RepeatLocationInputs :
           call' = Done("predict",
                        [location_features |-> location_features, return_details |-> TRUE],
                        predict(location_features, TRUE))
    /\ Quiet

ScoreAllDimensionsAgain ==
    /\ call.pc = "idle"
    /\ \E location_features \in RepeatLocationInputs :
           call' = Done("score_all_dimensions", [location_features |-> location_features],
                        score_all_dimensions(location_features))
    /\ Quiet

MajorityVoteAgain ==
    /\ call.pc = "idle"
    /\ \E location_features \in RepeatLocationInputs :
           LET dim_results == score_all_dimensions(location_features)
           IN  call' = Done("majority_vote", [dim_results |-> dim_results],
                            majority_vote(dim_results))
    /\ Quiet

GetStrengthsWeaknessesAgain ==
    /\ call.pc = "idle"
    /\ \E location_features \in RepeatLocationInputs :
           LET dim_results == score_all_dimensions(location_features)
           IN  call' = Done("get_strengths_weaknesses", [dim_results |-> dim_results],
                            get_strengths_weaknesses(dim_results))
    /\ Quiet

ComputeOverallScoreAgain ==
    /\ call.pc = "idle"
    /\ \E profiler_scores \in RepeatScoreInputs :
           call' = Done("compute_overall_score",
                        [profiler_scores |-> profiler_scores,
                         dimension_weights_for_overall |-> DIMENSION_WEIGHTS_FOR_OVERALL],
                        compute_overall_score(profiler_scores,
                                              DIMENSION_WEIGHTS_FOR_OVERALL))
    /\ Quiet

\* The response is handed to the caller, who keeps it.
ReturnKept ==
    /\ call.pc = "done"
    /\ Len(history) < MaxCalls
    /\ history' = Append(history, [op |-> call.op, args |-> call.args, ret |-> call.ret])
    /\ call' = Idle
    /\ UNCHANGED <<feature_ranges, category_stats, distributions, singleton, thread, built,
                   frames>>

InitRepeat ==
    /\ feature_ranges \in {MixedTable, OverlappingTable}
    /\ distributions = DefaultDistributions
    /\ InitCommon

NextRepeat ==
    \/ PredictAgain
    \/ ScoreAllDimensionsAgain
    \/ MajorityVoteAgain
    \/ GetStrengthsWeaknessesAgain
    \/ ComputeOverallScoreAgain
    \/ ReturnKept

SpecRepeat == InitRepeat /\ [][NextRepeat]_vars

-----------------------------------------------------------------------------
(* Classification calls running at the same time on one loaded profiler.
   The endpoints are plain `def` functions, which the server runs on worker
   threads; each call has its own locals (totals, votes) and all calls read
   the same feature_ranges and category_stats. *)

\* The keys of a caller's mapping in the order .keys() walks them.
InputKeyOrder ==
    <<"total_sunshine_hours", "rainy_days", "nearby_traffic_lights_count",
      "competitors_count", "total_weekly_operational_hours", "Sum ChainXY",
      "unknown_feature">>

KeysOf(location_features) ==
    SelectSeq(InputKeyOrder, LAMBDA f : f \in DOMAIN location_features)

\* Dimensions asked for by the concurrent requests.
ConcurrentDimensions == {"Weather", "Competition", "Gas"}

OtherThanFrames ==
    UNCHANGED <<feature_ranges, category_stats, distributions, call, singleton, thread,
                built, history>>

\* Lines 129-142 of majority_vote: the result built from the counted votes.
VoteResult(votes, voting_dims) ==
    LET any_votes == \E cat \in Labels : votes[cat] # 0
        winner == IF any_votes THEN MaxKey(CATEGORY_LABELS, votes) ELSE "Undetermined"
    IN  [category |-> winner,
         agreement |-> IF winner \in Labels THEN votes[winner] ELSE 0,
         total_dimensions |-> SumOver(Labels, votes),
         vote_breakdown |-> votes,
         voting_dimensions |-> voting_dims]

\* A thread enters predict, which enters score_location: totals is created,
\* features_to_score is every key of the mapping.
CallPredict(t) ==
    /\ frames[t].pc = "idle"
    /\ \E location_features \in RepeatLocationInputs :
           frames' = [frames EXCEPT ![t] =
                         [pc |-> "score_location",
                          op |-> "predict",
                          args |-> [location_features |-> location_features,
                                    return_details |-> TRUE],
                          location_features |-> location_features,
                          relevant |-> <<>>,
                          totals |-> [cat \in Labels |-> 0],
                          todo |-> KeysOf(location_features),
                          ret |-> None]]
    /\ OtherThanFrames

\* A thread enters score_dimension: it returns at once when no feature is
\* relevant, else it enters score_location with the relevant features.
CallScoreDimension(t) ==
    /\ frames[t].pc = "idle"
    /\ \E dimension \in ConcurrentDimensions, location_features \in RepeatLocationInputs :
           LET relevant == Relevant(dimension, location_features)
           IN  frames' = [frames EXCEPT ![t] =
                             [pc |-> IF relevant = <<>> THEN "done" ELSE "score_location",
                              op |-> "score_dimension",
                              args |-> [dimension |-> dimension,
                                        location_features |-> location_features],
                              location_features |-> location_features,
                              relevant |-> relevant,
                              totals |-> [cat \in Labels |-> 0],
                              todo |-> relevant,
                              ret |-> IF relevant = <<>> THEN NoRelevantFeature ELSE None]]
    /\ OtherThanFrames

\* One pass of the loop of score_location that adds into every running
\* call's totals, as if totals were one dict of the profiler.
ScoreLocationStepSharedTotals(t) ==
    /\ frames[t].pc = "score_location"
    /\ frames[t].todo # <<>>
    /\ LET feat == Head(frames[t].todo)
           location_features == frames[t].location_features
           skipped == \/ feat \notin DOMAIN location_features
                      \/ location_features[feat] = None
           per_tier == score_feature(feat, location_features[feat])
           added(totals) ==
               [cat \in Labels |->
                   totals[cat] + (IF cat \in DOMAIN per_tier THEN per_tier[cat] ELSE 0)]
       IN  frames' = [u \in Threads |->
                         IF frames[u].pc # "score_location" THEN frames[u]
                         ELSE [frames[u] EXCEPT
                                  !.todo = IF u = t THEN Tail(@) ELSE @,
                                  !.totals = IF skipped THEN @ ELSE added(@)]]
    /\ OtherThanFrames

\* One pass of the loop of score_location (lines 252-257): the next feature
\* is skipped when absent or null, else its per-tier scores are added to this
\* call's totals.
ScoreLocationStep(t) ==
    /\ frames[t].pc = "score_location"
    /\ frames[t].todo # <<>>
    /\ LET feat == Head(frames[t].todo)
           location_features == frames[t].location_features
           skipped == \/ feat \notin DOMAIN location_features
                      \/ location_features[feat] = None
           per_tier == score_feature(feat, location_features[feat])
           added(totals) ==
               [cat \in Labels |->
                   totals[cat] + (IF cat \in DOMAIN per_tier THEN per_tier[cat] ELSE 0)]
       IN  frames' = [frames EXCEPT ![t].todo = Tail(@),
                                    ![t].totals = IF skipped THEN @ ELSE added(@)]
    /\ OtherThanFrames

\* score_location returns totals and its caller builds the result.
ScoreLocationReturn(t) ==
    /\ frames[t].pc = "score_location"
    /\ frames[t].todo = <<>>
    /\ frames' = [frames EXCEPT
                     ![t].pc = "done",
                     ![t].ret =
                         IF frames[t].op = "predict"
                         THEN PredictResult(frames[t].totals, frames[t].location_features,
                                            frames[t].args.return_details)
                         ELSE ScoreDimensionResult(frames[t].totals, frames[t].relevant,
                                                   frames[t].location_features)]
    /\ OtherThanFrames

\* A thread enters majority_vote with the dimension results of a mapping.
CallMajorityVote(t) ==
    /\ frames[t].pc = "idle"
    /\ \E location_features \in RepeatLocationInputs :
           LET dim_results == score_all_dimensions(location_features)
           IN  frames' = [frames EXCEPT ![t] =
                             [pc |-> "count_votes",
                              op |-> "majority_vote",
                              args |-> [dim_results |-> dim_results],
                              votes |-> [cat \in Labels |-> 0],
                              voting_dims |-> <<>>,
                              todo |-> dim_results,
                              ret |-> None]]
    /\ OtherThanFrames

\* One pass of the loop of majority_vote (lines 127-131).
CountVote(t) ==
    /\ frames[t].pc = "count_votes"
    /\ frames[t].todo # <<>>
    /\ LET item == Head(frames[t].todo)
           pred == item.res.predicted
       IN  frames' = [frames EXCEPT
                         ![t].todo = Tail(@),
                         ![t].votes = IF pred \in DOMAIN @
                                      THEN [@ EXCEPT ![pred] = @ + 1] ELSE @,
                         ![t].voting_dims = IF pred \in DOMAIN frames[t].votes
                                            THEN Append(@, item.dim) ELSE @]
    /\ OtherThanFrames

MajorityVoteReturn(t) ==
    /\ frames[t].pc = "count_votes"
    /\ frames[t].todo = <<>>
    /\ frames' = [frames EXCEPT
                     ![t].pc = "done",
                     ![t].ret = VoteResult(frames[t].votes, frames[t].voting_dims)]
    /\ OtherThanFrames

\* The caller takes the result; the thread is free for the next request.
FrameReturn(t) ==
    /\ frames[t].pc = "done"
    /\ frames' = [frames EXCEPT ![t] = NoFrame]
    /\ OtherThanFrames

InitConcurrent ==
    /\ feature_ranges \in {MixedTable, OverlappingTable}
    /\ distributions = DefaultDistributions
    /\ InitCommon

NextConcurrent ==
    \E t \in Threads :
        \/ CallPredict(t)
        \/ CallScoreDimension(t)
        \/ ScoreLocationStep(t)
        \/ ScoreLocationReturn(t)
        \/ CallMajorityVote(t)
        \/ CountVote(t)
        \/ MajorityVoteReturn(t)
        \/ FrameReturn(t)

SpecConcurrent == InitConcurrent /\ [][NextConcurrent]_vars

-----------------------------------------------------------------------------
(* profiler_engine.py: _compute_feature_ranges.  The rows of one feature are
   given per tier, as qcut has labelled them; quantiles and min/max are held
   in quarters of the value unit, which is exact for the linear interpolation
   of Series.quantile at 0.25, 0.50 and 0.75. *)

MaxTierObs == 6

\* Series.quantile(k / 4) of the ascending non-null values s, in quarters:
\* the value at position (n - 1) * k / 4, interpolated linearly between its
\* two neighbours.
Quantile4(s, k) ==
    LET pos == (Len(s) - 1) * k
        i == pos \div 4
        r == pos % 4
    IN  IF r = 0 THEN 4 * s[i + 1]
        ELSE 4 * s[i + 1] + r * (s[i + 2] - s[i + 1])

\* The rows of one feature in one tier: the non-null values (held ascending;
\* quantile sorts them) and the number of null cells beside them.
TierRows ==
    LET ascending == {s \in UNION {[1..n -> Values] : n \in 0..MaxTierObs} :
                         \A i \in 1..(Len(s) - 1) : s[i] <= s[i + 1]}
    IN  {[values |-> s, nulls |-> k] : s \in ascending, k \in 0..1}

\* The entry lines 175-182 store for a tier, from its non-null values.
FeatureRangeOf(subset) ==
    [q25 |-> Quantile4(subset, 1),
     q50 |-> Quantile4(subset, 2),
     q75 |-> Quantile4(subset, 3),
     min |-> 4 * subset[1],
     max |-> 4 * subset[Len(subset)],
     count |-> Len(subset)]

\* _compute_feature_ranges testing the length of the tier's rows before the
\* nulls are dropped.
compute_feature_ranges_counting_nulls(rows) ==
    [feature \in DOMAIN rows |->
        LET kept == {cat \in Labels :
                        Len(rows[feature][cat].values) + rows[feature][cat].nulls >= 5}
        IN  [cat \in kept |-> FeatureRangeOf(rows[feature][cat].values)]]

\* _compute_feature_ranges: feature -> tier -> range, a tier being left out
\* when fewer than 5 of its rows hold a value (dropna, then len(subset) < 5).
compute_feature_ranges(rows) ==
    [feature \in DOMAIN rows |->
        LET kept == {cat \in Labels : Len(rows[feature][cat].values) >= 5}
        IN  [cat \in kept |-> FeatureRangeOf(rows[feature][cat].values)]]

\* Datasets of one feature: any rows in one tier, five values in the second
\* and four in the third.
BuildDatasets ==
    {[feature \in {"total_sunshine_hours"} |->
         [cat \in Labels |->
             CASE cat = "Low Performing" -> rows
               [] cat = "Average Performing" ->
                      [values |-> <<0, 0, 1, 1, MaxValue>>, nulls |-> 0]
               [] cat = "High Performing" -> [values |-> <<1, 1, 1, 1>>, nulls |-> 1]]] :
        rows \in TierRows}

\* Tables of one feature with any of its tiers left out.
TablesWithTiersLeftOut ==
    {[f \in {"total_sunshine_hours"} |-> t] :
        t \in UNION {[S -> {R(1, 2)}] : S \in SUBSET Labels}}

ComputeFeatureRanges ==
    /\ call.pc = "idle"
    /\ \E rows \in BuildDatasets :
           call' = Done("compute_feature_ranges", [rows |-> rows],
                        compute_feature_ranges(rows))
    /\ Quiet

InitBuild ==
    /\ feature_ranges \in TablesWithTiersLeftOut
    /\ distributions = DefaultDistributions
    /\ InitCommon

NextBuild ==
    \/ ComputeFeatureRanges
    \/ ScoreFeature
    \/ Return

SpecBuild == InitBuild /\ [][NextBuild]_vars

-----------------------------------------------------------------------------
(* QuantileProfiler.__init__ (profiler_engine.py 119-158) as the first call
   of _get_profilers (routes.py 579-585) runs it on the dataset file. *)

MaxRows == 4

NaN == -3                \* float('nan'): a statistic of a tier without rows

KeyError == [raised |-> "KeyError"]

\* The datasets read from the file: rows of one outcome cell (the volume) and
\* one feature cell, either of them possibly empty, held in ascending order of
\* the volume (empty cells first); a dataset without the outcome column holds
\* no volume at all.
LoadDatasets ==
    LET cells == {[volume |-> v, value |-> x] :
                     v \in Values \cup {None}, x \in {0, MaxValue, None}}
        sorted == {s \in UNION {[1..n -> cells] : n \in 0..MaxRows} :
                      \A i \in 1..(Len(s) - 1) : s[i].volume <= s[i + 1].volume}
    IN  {[has_target |-> TRUE, rows |-> s] : s \in sorted}
        \cup {[has_target |-> FALSE, rows |-> s] :
                 s \in {u \in sorted : \A i \in 1..Len(u) : u[i].volume = None}}

\* The non-null volumes of the rows, ascending.
NonNullVolumes(rows) ==
    LET k == Cardinality({i \in 1..Len(rows) : rows[i].volume = None})
    IN  [i \in 1..(Len(rows) - k) |-> rows[i + k].volume]

\* Series.quantile(k / 3) of the ascending values s, in thirds.
Quantile3(s, k) ==
    LET pos == (Len(s) - 1) * k
        i == pos \div 3
        r == pos % 3
    IN  IF r = 0 THEN 3 * s[i + 1]
        ELSE 3 * s[i + 1] + r * (s[i + 2] - s[i + 1])

\* The bin edges pd.qcut(q=3) takes from the non-null volumes, in thirds.
QcutEdges(volumes) == [k \in 0..3 |-> Quantile3(volumes, k)]

\* pd.qcut(..., labels=CATEGORY_LABELS, duplicates="drop") fails when no volume
\* is there or when two edges coincide: an edge is dropped and the three
\* labels no longer match the bins.
QcutRaises(volumes) ==
    \/ volumes = <<>>
    \/ \E k \in 0..2 : QcutEdges(volumes)[k] = QcutEdges(volumes)[k + 1]

\* The tier pd.qcut gives a volume: bin i is (edge i-1, edge i], the first
\* bin taking the lowest edge as well; an empty cell gets no tier.
PerformanceCategory(volumes, v) ==
    IF v = None THEN "none"
    ELSE LET edges == QcutEdges(volumes)
             bin == CHOOSE i \in 1..3 :
                        \/ edges[i - 1] < 3 * v /\ 3 * v <= edges[i]
                        \/ i = 1 /\ 3 * v = edges[0]
         IN  CATEGORY_LABELS[bin]

\* The values of a sequence in ascending order.
Ascending(s) ==
    CHOOSE u \in [1..Len(s) -> Range(s)] :
        /\ \A i \in 1..(Len(u) - 1) : u[i] <= u[i + 1]
        /\ \A v \in Range(s) : Cardinality({i \in 1..Len(s) : s[i] = v})
                                 = Cardinality({i \in 1..Len(u) : u[i] = v})

\* The cells of the feature column in the rows of tier cat: the non-null
\* values and the number of empty cells.
FeatureRowsOf(rows, volumes, cat) ==
    LET idx == {i \in 1..Len(rows) : PerformanceCategory(volumes, rows[i].volume) = cat}
        held == SelectSeq(rows, LAMBDA row : /\ PerformanceCategory(volumes, row.volume) = cat
                                             /\ row.value # None)
    IN  [values |-> Ascending([i \in 1..Len(held) |-> held[i].value]),
         nulls |-> Cardinality({i \in idx : rows[i].value = None})]

\* _compute_category_stats (185-201): the statistics of a tier's volumes,
\* quantiles in quarters; NaN when the tier holds no row.
CategoryStatsOf(volumes, cat) ==
    LET held == SelectSeq(volumes, LAMBDA v : PerformanceCategory(volumes, v) = cat)
    IN  IF held = <<>>
        THEN [q25 |-> NaN, median |-> NaN, q75 |-> NaN, min |-> NaN, max |-> NaN,
              count |-> 0]
        ELSE [q25 |-> Quantile4(held, 1), median |-> Quantile4(held, 2),
              q75 |-> Quantile4(held, 3), min |-> 4 * held[1],
              max |-> 4 * held[Len(held)], count |-> Len(held)]

\* QuantileProfiler.__init__: the exception the construction ends with, or
\* the attributes of the new profiler.
QuantileProfilerInit(dataset) ==
    LET volumes == NonNullVolumes(dataset.rows)
    IN  IF ~dataset.has_target THEN KeyError
        ELSE IF QcutRaises(volumes) THEN ValueError
        ELSE [feature_ranges |->
                  compute_feature_ranges(
                      [feature \in {"total_sunshine_hours"} |->
                          [cat \in Labels |-> FeatureRowsOf(dataset.rows, volumes, cat)]]),
              category_stats |->
                  [cat \in Labels |-> CategoryStatsOf(volumes, cat)]]

\* _get_profilers() run by one caller, the dataset file holding `dataset` when
\* the first call reads it.  An exception of the constructor leaves both
\* globals as they were.
GetProfilers ==
    /\ call.pc = "idle"
    /\ IF singleton.profiler = 0
       THEN \E dataset \in LoadDatasets :
                LET made == QuantileProfilerInit(dataset)
                    q == built.quantile + 1
                    d == [id |-> built.dimension + 1, profiler |-> q]
                IN  IF "raised" \in DOMAIN made
                    THEN /\ call' = Done("_get_profilers", [dataset |-> dataset], made)
                         /\ UNCHANGED <<feature_ranges, category_stats, singleton, built>>
                    ELSE /\ feature_ranges' = made.feature_ranges
                         /\ category_stats' = made.category_stats
                         /\ singleton' = [singleton EXCEPT !.profiler = q,
                                                           !.dim_profiler = d]
                         /\ built' = [built EXCEPT !.quantile = q,
                                                   !.dimension = built.dimension + 1]
                         /\ call' = Done("_get_profilers", [dataset |-> dataset],
                                         [profiler |-> q, dim_profiler |-> d])
       ELSE /\ call' = Done("_get_profilers", <<>>,
                            [profiler |-> singleton.profiler,
                             dim_profiler |-> singleton.dim_profiler])
            /\ UNCHANGED <<feature_ranges, category_stats, singleton, built>>
    /\ UNCHANGED <<distributions, thread, history, frames>>

InitLoad ==
    /\ feature_ranges = <<>>
    /\ category_stats = <<>>
    /\ distributions = DefaultDistributions
    /\ call = Idle
    /\ singleton = Unloaded
    /\ thread = [t \in Threads |-> IdleThread]
    /\ built = [quantile |-> 0, dimension |-> 0, cto |-> 0]
    /\ history = <<>>
    /\ frames = [t \in Threads |-> NoFrame]

NextLoad ==
    \/ GetProfilers
    \/ Return

SpecLoad == InitLoad /\ [][NextLoad]_vars

-----------------------------------------------------------------------------
(* The per-feature scores of both percentile scorers and the scores that
   aggregate them. *)

InitAggregate ==
    /\ feature_ranges = MixedTable
    /\ distributions \in {DefaultDistributions, TiedDistributions}
    /\ InitCommon

NextAggregate ==
    \/ ScoreFeatureCtoMethod
    \/ ScoreFeatureWithConfig
    \/ CtoScoreLocation
    \/ ComputeDimensionScore
    \/ ComputeOverallScore
    \/ Return

SpecAggregate == InitAggregate /\ [][NextAggregate]_vars

-----------------------------------------------------------------------------
(* server/routes.py: the endpoints that read the result of an analyze-site
   task.  AsyncResult asks the result backend each time its state or result
   is read, until it has seen a ready state; from then on it answers from the
   copy it kept. *)

\* models.py TaskStatus
TaskStatus == {"PENDING", "STARTED", "SUCCESS", "FAILURE", "RETRY", "REVOKED"}

\* celery.states.READY_STATES
READY_STATES == {"SUCCESS", "FAILURE", "REVOKED"}

\* task_result.result of a task that returned None or has not returned.
NullResult == [null |-> TRUE]

\* TASK_GAS_TO_PROFILER
TASK_GAS_TO_PROFILER ==
    [k \in {"distance_from_nearest_gas_station"} |-> "nearest_gas_station_distance_miles"]

\* RETAILER_API_TO_PROFILER
RETAILER_API_TO_PROFILER ==
    [k \in {"distance_from_nearest_costco", "distance_from_nearest_walmart",
            "distance_from_nearest_target", "other_grocery_count_1mile",
            "count_food_joints_0_5miles"} |->
        CASE k = "distance_from_nearest_costco" -> "distance_nearest_costco(5 mile)"
          [] k = "distance_from_nearest_walmart" -> "distance_nearest_walmart(5 mile)"
          [] k = "distance_from_nearest_target" -> "distance_nearest_target (5 mile)"
          [] k = "other_grocery_count_1mile" -> "other_grocery_count_1mile"
          [] k = "count_food_joints_0_5miles" -> "count_food_joints_0_5miles (0.5 mile)"]

\* COMPETITORS_API_TO_PROFILER
COMPETITORS_API_TO_PROFILER ==
    [k \in {"count", "competitor_1_distance_miles", "competitor_1_google_rating",
            "competitor_1_rating_count"} |->
        IF k = "count" THEN "competitors_count_4miles" ELSE k]

\* The feature_values an analyze-site task can have stored.
TaskFeatureValues ==
    UNION {[K -> {0, MaxValue, None}] :
              K \in {S \in SUBSET {"total_precipitation_mm",
                                   "distance_from_nearest_gas_station",
                                   "competitor_1_distance_miles",
                                   "nearby_traffic_lights_count"} :
                        Cardinality(S) <= MaxInputFeatures}}

\* What the result backend can hold for a task: the value a finished task
\* returned (a dict with or without feature_values, or None), the exception of
\* a failed one, nothing otherwise.
TaskMetas ==
    {[status |-> "SUCCESS", result |-> r] :
        r \in {[feature_values |-> fv] : fv \in TaskFeatureValues}
              \cup {[address |-> "site"], NullResult}}
    \cup {[status |-> "FAILURE", result |-> r] :
             r \in {[exception |-> "RuntimeError"], NullResult}}
    \cup {[status |-> s, result |-> NullResult] :
             s \in TaskStatus \ {"SUCCESS", "FAILURE"}}

\* What the backend holds at the first, second and third read of one
\* AsyncResult; after a ready state no further read reaches the backend.
TaskObservations ==
    LET ready == {m \in TaskMetas : m.status \in READY_STATES}
        unready == TaskMetas \ ready
    IN  {<<a, a, a>> : a \in ready}
        \cup {<<a, b, b>> : a \in unready, b \in ready}
        \cup {<<a, b, c>> : a \in unready, b \in unready, c \in TaskMetas}

HTTPException(status_code, detail) == [status_code |-> status_code, detail |-> detail]

\* _get_task_result_or_raise handing out task_result.result whenever it is
\* not empty, without looking at the state.
get_task_result_or_raise_unchecked(metas) ==
    IF metas[1].result = NullResult
    THEN HTTPException(422, "completed but result is empty")
    ELSE metas[1].result

\* _get_task_result_or_raise(task_id), metas being the backend's answers to
\* the reads of lines 76, 77 and 82.
get_task_result_or_raise(metas) ==
    LET first == metas[1]
        second == IF first.status \in READY_STATES THEN first ELSE metas[2]
        third == IF second.status \in READY_STATES THEN second ELSE metas[3]
    IN  IF first.status # "SUCCESS"
        THEN IF second.status = "FAILURE"
             THEN HTTPException(422, "failed")
             ELSE HTTPException(404, third.status)
        ELSE IF first.result = NullResult
        THEN HTTPException(422, "completed but result is empty")
        ELSE first.result

\* result.get("feature_values") or {}
FeatureValuesOf(result) ==
    IF "feature_values" \in DOMAIN result THEN result.feature_values ELSE <<>>

\* all_scores.update(more)
Updated(all_scores, more) ==
    [k \in DOMAIN all_scores \cup DOMAIN more |->
        IF k \in DOMAIN more THEN more[k] ELSE all_scores[k]]

\* The scores get_all_profiler_scores_from_task_feature_values adds for one
\* key map (lines 278-280 and the like).
ScoresOfMap(feature_values, api_to_profiler_map) ==
    LET flat == [k \in {k \in DOMAIN api_to_profiler_map :
                           k \in DOMAIN feature_values /\ feature_values[k] # None} |->
                    feature_values[k]]
    IN  IF DOMAIN flat = {} THEN <<>>
        ELSE get_feature_final_scores(flat, api_to_profiler_map)

get_all_profiler_scores_from_task_feature_values(feature_values) ==
    Updated(Updated(Updated(ScoresOfMap(feature_values, WEATHER_API_TO_PROFILER),
                            ScoresOfMap(feature_values, TASK_GAS_TO_PROFILER)),
                    ScoresOfMap(feature_values, RETAILER_API_TO_PROFILER)),
            ScoresOfMap(feature_values, COMPETITORS_API_TO_PROFILER))

\* get_overall_score(task_id)
get_overall_score(metas) ==
    LET result == get_task_result_or_raise(metas)
        feature_values == FeatureValuesOf(result)
        profiler_scores == get_all_profiler_scores_from_task_feature_values(feature_values)
        scored == {dim \in {"Weather", "Gas", "Retail Proximity", "Competition"} :
                      compute_dimension_score(profiler_scores, dim) # None}
    IN  IF "status_code" \in DOMAIN result THEN result
        ELSE IF DOMAIN feature_values = {}
        THEN HTTPException(422, "no feature_values")
        ELSE IF DOMAIN profiler_scores = {}
        THEN HTTPException(422, "could not score any features")
        ELSE [overall_score |->
                  compute_overall_score(profiler_scores, DIMENSION_WEIGHTS_FOR_OVERALL),
              dimension_scores |->
                  [dim \in scored |-> compute_dimension_score(profiler_scores, dim)]]

\* _dimension_summary(task_id, dimension) for a dimension outside
\* DIMENSION_FEATURE_MAP: the quantile profiling of lines 639-667.
dimension_summary(metas, dimension) ==
    LET result == get_task_result_or_raise(metas)
        feature_values == FeatureValuesOf(result)
        dim_result == score_dimension(dimension, feature_values)
    IN  IF "status_code" \in DOMAIN result THEN result
        ELSE [dimension |-> dimension,
              predicted_tier |-> dim_result.predicted,
              fit_score |-> dim_result.fit_score,
              features_scored |-> dim_result.features_scored,
              overall_category |-> predict(feature_values, FALSE).predicted_category]

GetTaskResultOrRaise ==
    /\ call.pc = "idle"
    /\ \E metas \in TaskObservations :
           call' = Done("get_task_result_or_raise", [metas |-> metas],
                        get_task_result_or_raise(metas))
    /\ Quiet

GetOverallScore ==
    /\ call.pc = "idle"
    /\ \E metas \in TaskObservations :
           call' = Done("get_overall_score", [metas |-> metas], get_overall_score(metas))
    /\ Quiet

DimensionSummary ==
    /\ call.pc = "idle"
    /\ \E metas \in TaskObservations, dimension \in {"Traffic", "Infrastructure"} :
           call' = Done("dimension_summary", [metas |-> metas, dimension |-> dimension],
                        dimension_summary(metas, dimension))
    /\ Quiet

InitTask ==
    /\ feature_ranges = MixedTable
    /\ distributions = DefaultDistributions
    /\ InitCommon

NextTask ==
    \/ GetTaskResultOrRaise
    \/ GetOverallScore
    \/ DimensionSummary
    \/ Return

SpecTask == InitTask /\ [][NextTask]_vars

-----------------------------------------------------------------------------
(* Properties *)

\* An input with zero scorable features: the empty mapping, only names the
\* profiler has no ranges for, or only null values.
ZeroScorable(location_features) ==
    \A f \in DOMAIN location_features :
        f \notin DOMAIN feature_ranges \/ location_features[f] = None

\* C1: a classification whose input has zero scorable features reports tier
\* "Insufficient Data" and score 0, never a real tier label: the verdict of
\* predict, the overall_tier of the full profiling summary, and score_dimension.
C1_ZeroScorableIsInsufficientData ==
    /\ (call.op = "predict" /\ ZeroScorable(call.args.location_features))
           => /\ call.ret.predicted_category = "Insufficient Data"
              /\ call.ret.fit_score = 0
    /\ (call.op = "get_full_profiling_summary" /\ ZeroScorable(call.args.feature_values))
           => /\ call.ret.overall_tier = "Insufficient Data"
              /\ call.ret.overall_fit_score = 0
    /\ (call.op = "score_dimension" /\ ZeroScorable(call.args.location_features))
           => /\ call.ret.predicted = "Insufficient Data"
              /\ call.ret.fit_score = 0

\* C2: concurrent first callers of _get_profilers and of _get_profiler trigger
\* at most one build of each profiler, and every caller of the same getter is
\* handed the same profiler instance.
C2_SingleBuildSharedInstance ==
    /\ built.quantile <= 1
    /\ built.cto <= 1
    /\ \A t, u \in Threads :
           (thread[t].fn = thread[u].fn /\ thread[t].ret # 0 /\ thread[u].ret # 0)
               => thread[t].ret = thread[u].ret

\* The fit s (in units of 1 / ScoreUnit) that the formula of the specification
\* gives `value` against the range r, stated without division.
FitsRange(r, value, s) ==
    LET width == r.q75 - r.q25
        distance == Min2(Abs(value - r.q25), Abs(value - r.q75))
    IN  IF r.q25 <= value /\ value <= r.q75 THEN s = ScoreUnit
        ELSE IF width > 0 THEN s * width = Max2(0, ScoreUnit * (width - distance))
        ELSE s = (IF value = r.q25 THEN ScoreUnit ELSE 0)

\* C3: for every feature, value and tier with a stored range, score_feature
\* (QuantileProfiler and SiteProfiler) returns 1.0 inside [q25, q75]; outside,
\* max(0, 1 - min(|value - q25|, |value - q75|) / (q75 - q25)) when the width is
\* positive, and for a zero width 1.0 if value = q25 and else 0.0.  Range
\* 10..20: 15 gives 1.0, 25 gives 0.5, 40 gives 0.0.
C3_ScoreFeatureFitsRange ==
    /\ (call.op = "score_feature" /\ call.args.feature \in DOMAIN feature_ranges)
           => LET ranges == feature_ranges[call.args.feature]
              IN  /\ DOMAIN call.ret = DOMAIN ranges
                  /\ \A cat \in DOMAIN ranges :
                         FitsRange(ranges[cat], call.args.value, call.ret[cat])
    /\ (/\ call.op = "site_score_feature"
        /\ call.args.feature \in DOMAIN feature_ranges
        /\ call.args.category \in DOMAIN feature_ranges[call.args.feature])
           => FitsRange(feature_ranges[call.args.feature][call.args.category],
                        call.args.value, call.ret)
    /\ ScoreTier(R(10, 20), 15) = ScoreUnit
    /\ 2 * ScoreTier(R(10, 20), 25) = ScoreUnit
    /\ ScoreTier(R(10, 20), 40) = 0

\* C3 happens: one score_feature call with a tier fitted partly and a
\* zero-width tier that the value misses.
C3_PartialAndZeroWidthScored ==
    /\ call.op = "score_feature"
    /\ call.args.feature \in DOMAIN feature_ranges
    /\ \E cat \in DOMAIN call.ret : 0 < call.ret[cat] /\ call.ret[cat] < ScoreUnit
    /\ \E cat \in DOMAIN call.ret :
           LET r == feature_ranges[call.args.feature][cat]
           IN  r.q25 = r.q75 /\ call.args.value # r.q25 /\ call.ret[cat] = 0

\* The features of an input that have ranges and a non-null value.
KnownNonNull(location_features) ==
    {f \in DOMAIN location_features :
        f \in DOMAIN feature_ranges /\ location_features[f] # None}

\* The total fit of tier cat over the known non-null features of an input.
TierTotal(location_features, cat) ==
    LET scored == KnownNonNull(location_features)
    IN  SumOver(scored,
                [f \in scored |->
                    IF cat \in DOMAIN feature_ranges[f]
                    THEN ScoreTier(feature_ranges[f][cat], location_features[f])
                    ELSE 0])

\* C4: predict sums the per-tier fit scores over the input features that are
\* known and non-null, predicts a tier of the highest total, and reports
\* fit_score = 100 x winning total / sum of all totals to the nearest tenth,
\* or 0 when all totals are 0.
C4_PredictHighestTotal ==
    call.op = "predict" =>
        LET lf == call.args.location_features
            sum == SumOver(Labels, [cat \in Labels |-> TierTotal(lf, cat)])
            win == call.ret.predicted_category
        IN  /\ win \in Labels
            /\ \A cat \in Labels : TierTotal(lf, cat) <= TierTotal(lf, win)
            /\ \A cat \in Labels :
                   2 * Abs(call.ret.category_scores[cat] * ScoreUnit
                           - 100 * TierTotal(lf, cat)) <= ScoreUnit
            /\ IF sum = 0 THEN call.ret.fit_score = 0
               ELSE 2 * Abs(call.ret.fit_score * sum - 1000 * TierTotal(lf, win)) <= sum

\* C4 happens: predict on an input with a scored feature next to a null or
\* unknown one, won by a tier other than the first with part of the total.
C4_PredictScoredNextToSkipped ==
    /\ call.op = "predict"
    /\ KnownNonNull(call.args.location_features) # {}
    /\ KnownNonNull(call.args.location_features) # DOMAIN call.args.location_features
    /\ call.ret.predicted_category # "Low Performing"
    /\ 0 < call.ret.fit_score /\ call.ret.fit_score < 1000

\* The number of items of dim_results whose prediction is the tier cat, and
\* the number whose prediction is any tier label.
VotesFor(dim_results, cat) ==
    Cardinality({i \in 1..Len(dim_results) : dim_results[i].res.predicted = cat})

TierPredictions(dim_results) ==
    Cardinality({i \in 1..Len(dim_results) : dim_results[i].res.predicted \in Labels})

\* C5: for any per-dimension results, majority_vote returns agreement <=
\* total_dimensions, total_dimensions = the number of dimensions whose
\* prediction is a tier label, and a category that got at least one vote, or
\* "Undetermined" with agreement 0 exactly when total_dimensions is 0.
C5_MajorityVoteCounts ==
    call.op = "majority_vote" =>
        LET dim_results == call.args.dim_results
            vote == call.ret
        IN  /\ vote.agreement <= vote.total_dimensions
            /\ vote.total_dimensions = TierPredictions(dim_results)
            /\ (vote.category = "Undetermined") <=> (vote.total_dimensions = 0)
            /\ vote.category = "Undetermined" => vote.agreement = 0
            /\ vote.category # "Undetermined"
                   => /\ vote.category \in Labels
                      /\ VotesFor(dim_results, vote.category) >= 1

\* C5 happens: a vote of several dimensions that is not unanimous.
C5_SplitVote ==
    /\ call.op = "majority_vote"
    /\ call.ret.total_dimensions >= 2
    /\ 0 < call.ret.agreement /\ call.ret.agreement < call.ret.total_dimensions

\* The tiers with the most votes, and the one of them that is met first when
\* dim_results is walked in its order.
TopTiers(dim_results) ==
    {cat \in Labels : \A other \in Labels :
        VotesFor(dim_results, other) <= VotesFor(dim_results, cat)}

FirstEncountered(dim_results) ==
    LET first == CHOOSE i \in 1..Len(dim_results) :
                     /\ dim_results[i].res.predicted \in TopTiers(dim_results)
                     /\ \A j \in 1..(i - 1) :
                            dim_results[j].res.predicted \notin TopTiers(dim_results)
    IN  dim_results[first].res.predicted

\* C6 as stated: each dimension with a tier prediction casts exactly one vote,
\* and among the tiers tied for the most votes the winner is the one met first
\* in the order of the dimension results.
C6_TieWonByFirstEncountered ==
    (call.op = "majority_vote" /\ TierPredictions(call.args.dim_results) > 0) =>
        /\ \A cat \in Labels :
               call.ret.vote_breakdown[cat] = VotesFor(call.args.dim_results, cat)
        /\ call.ret.category = FirstEncountered(call.args.dim_results)

\* C6 as amended: each dimension with a tier prediction casts exactly one
\* vote, and among the tiers tied for the most votes the winner is the one
\* that comes first in CATEGORY_LABELS (Low, then Average, then High),
\* whatever the order of the dimensions.
C6_TieWonByFirstLabel ==
    (call.op = "majority_vote" /\ TierPredictions(call.args.dim_results) > 0) =>
        /\ \A cat \in Labels :
               call.ret.vote_breakdown[cat] = VotesFor(call.args.dim_results, cat)
        /\ Len(call.ret.voting_dimensions) = TierPredictions(call.args.dim_results)
        /\ \E i \in 1..Len(CATEGORY_LABELS) :
               /\ call.ret.category = CATEGORY_LABELS[i]
               /\ CATEGORY_LABELS[i] \in TopTiers(call.args.dim_results)
               /\ \A j \in 1..(i - 1) :
                      CATEGORY_LABELS[j] \notin TopTiers(call.args.dim_results)

\* C6 happens: a tie whose first-met tier is not the winner.
C6_TieLostByFirstEncountered ==
    /\ call.op = "majority_vote"
    /\ Cardinality(TopTiers(call.args.dim_results)) >= 2
    /\ TierPredictions(call.args.dim_results) > 0
    /\ call.ret.category # FirstEncountered(call.args.dim_results)

\* The input has a matching feature for the dimension: one of the dimension's
\* features that the profiler has ranges for, with a non-null value.
HasMatchingFeature(dimension, location_features) ==
    /\ dimension \in DOMAIN DIMENSION_GROUPS
    /\ \E i \in 1..Len(DIMENSION_GROUPS[dimension]) :
           LET f == DIMENSION_GROUPS[dimension][i]
           IN  /\ f \in DOMAIN location_features
               /\ location_features[f] # None
               /\ f \in DOMAIN feature_ranges

\* C7: a dimension for which the input has zero matching features yields no
\* score (compute_dimension_score returns null; score_dimension returns
\* "Insufficient Data" with features_scored 0) and casts no vote: it is not in
\* voting_dimensions, and the vote is the vote of the other dimensions alone.
C7_NoMatchNoScoreNoVote ==
    /\ (/\ call.op = "compute_dimension_score"
        /\ call.args.dimension_name \in DOMAIN DIMENSION_FEATURES
        /\ \A i \in 1..Len(DIMENSION_FEATURES[call.args.dimension_name]) :
               DIMENSION_FEATURES[call.args.dimension_name][i]
                   \notin DOMAIN call.args.profiler_scores)
           => call.ret = None
    /\ (/\ call.op = "score_dimension"
        /\ ~HasMatchingFeature(call.args.dimension, call.args.location_features))
           => /\ call.ret.predicted = "Insufficient Data"
              /\ call.ret.features_scored = 0
              /\ call.ret.fit_score = 0
    /\ call.op = "get_full_profiling_summary"
           => LET lf == call.args.feature_values
                  matched == SelectSeq(score_all_dimensions(lf),
                                       LAMBDA item : HasMatchingFeature(item.dim, lf))
              IN  /\ \A i \in 1..Len(call.ret.dimensions) :
                         ~HasMatchingFeature(call.ret.dimensions[i].dim, lf)
                             => /\ call.ret.dimensions[i].predicted = "Insufficient Data"
                                /\ call.ret.dimensions[i].features_scored = 0
                                /\ call.ret.dimensions[i].dim
                                       \notin Range(call.ret.vote.voting_dimensions)
                  /\ call.ret.vote = majority_vote(matched)
                  /\ call.ret.vote.total_dimensions <= Len(matched)
    /\ call.op = "majority_vote"
           => LET scored == SelectSeq(call.args.dim_results,
                                      LAMBDA item : item.res.predicted # "Insufficient Data")
              IN  /\ call.ret = majority_vote(scored)
                  /\ \A i \in 1..Len(call.args.dim_results) :
                         call.args.dim_results[i].res.predicted = "Insufficient Data"
                             => call.args.dim_results[i].dim
                                    \notin Range(call.ret.voting_dimensions)

\* C7 happens: a summary whose input names a feature of one dimension with a
\* null value only, while another dimension votes.
C7_NullOnlyDimensionBesideVoter ==
    /\ call.op = "get_full_profiling_summary"
    /\ call.ret.vote.total_dimensions >= 1
    /\ \E d \in DOMAIN DIMENSION_GROUPS :
           /\ ~HasMatchingFeature(d, call.args.feature_values)
           /\ \E i \in 1..Len(DIMENSION_GROUPS[d]) :
                  DIMENSION_GROUPS[d][i] \in DOMAIN call.args.feature_values

\* C8: compute_dimension_score returns the weighted average
\* sum(w_f * s_f) / sum(w_f), to the nearest hundredth, over the dimension's
\* features present in the scores only, and null when none of them is present
\* or the dimension is unknown.  With equal weights, A = 80 and C = 60 with B
\* absent give 70.
C8_WeightedAverageOfPresent ==
    /\ call.op = "compute_dimension_score"
           => LET scores == call.args.profiler_scores
                  dimension == call.args.dimension_name
                  known == dimension \in DOMAIN DIMENSION_FEATURES
                  present == IF known
                             THEN {f \in Range(DIMENSION_FEATURES[dimension]) :
                                      f \in DOMAIN scores}
                             ELSE {}
                  weight == [f \in present |-> DIMENSION_FEATURE_WEIGHTS[dimension][f]]
                  sum_w == SumOver(present, weight)
                  sum_ws == SumOver(present, [f \in present |-> weight[f] * scores[f]])
              IN  IF present = {} THEN call.ret = None
                  ELSE /\ call.ret # None
                       /\ 2 * Abs(call.ret * sum_w - sum_ws) <= sum_w
    /\ WeightedDimensionScore([f \in {"A", "B", "C"} |-> 3333], <<"A", "B", "C">>,
                              [f \in {"A", "C"} |-> IF f = "A" THEN 8000 ELSE 6000])
           = 7000

\* C8 happens: Weather scored from two of its seven features, both of weight
\* 0.2, at 80 and 60: the result is 70.
C8_TwoOfSevenPresent ==
    /\ call.op = "compute_dimension_score"
    /\ call.args.dimension_name = "Weather"
    /\ DOMAIN call.args.profiler_scores = {"weather_rainy_days", "weather_total_snowfall_cm"}
    /\ call.args.profiler_scores["weather_rainy_days"] = 8000
    /\ call.args.profiler_scores["weather_total_snowfall_cm"] = 6000
    /\ call.ret = 7000

\* The directional score (hundredths) that belongs to the rank percentile r
\* (hundredths) under the given direction.
DirectionalScore(direction, r) ==
    CASE direction = "higher_is_better" -> r
      [] direction = "lower_is_better" -> 10000 - r
      [] direction = "moderate_is_best" -> Max2(0, 10000 - 2 * Abs(r - 5000))

\* C9: the directional score of a feature with rank percentile r is r for
\* higher_is_better, 100 - r for lower_is_better and max(0, 100 - 2 * |r - 50|)
\* for moderate_is_best, the direction being the one of FEATURE_DIRECTION when
\* the feature is listed there.
C9_DirectionalScoreByDirection ==
    /\ (call.op = "score_feature_with_config" /\ "none" \notin DOMAIN call.ret)
           => /\ call.ret.direction
                     \in {"higher_is_better", "lower_is_better", "moderate_is_best"}
              /\ call.args.profiler_key \in DOMAIN FEATURE_DIRECTION
                     => call.ret.direction = FEATURE_DIRECTION[call.args.profiler_key]
              /\ call.ret.final_score
                     = DirectionalScore(call.ret.direction, call.ret.raw_percentile)
    /\ (call.op = "score_feature_cto_method" /\ "error" \notin DOMAIN call.ret)
           => /\ call.ret.direction \in {"higher_is_better", "lower_is_better"}
              /\ call.ret.final_score
                     = DirectionalScore(call.ret.direction, call.ret.raw_percentile)

\* C9 happens: a moderate_is_best feature scored off the median with a score
\* left, through the configured direction.
C9_ModerateOffMedian ==
    /\ call.op = "score_feature_with_config"
    /\ "none" \notin DOMAIN call.ret
    /\ call.ret.direction = "moderate_is_best"
    /\ call.ret.raw_percentile # 5000
    /\ 0 < call.ret.final_score /\ call.ret.final_score < 10000

\* Counts over the historical sample of the feature of the current call.
SamplesBelow(feature, value) ==
    Cardinality({i \in 1..Len(distributions[feature]) : distributions[feature][i] < value})

SamplesAtOrBelow(feature, value) ==
    Cardinality({i \in 1..Len(distributions[feature]) : distributions[feature][i] <= value})

\* p (hundredths) is the nearest hundredth of 100 * num / den.
NearestHundredth(p, num, den) == 2 * Abs(p * den - 10000 * num) <= den

\* C10 as stated: rankPercentile(feature, value) is 100 x (number of samples
\* <= value) / (sample size), for every value and every sample, repeated
\* values included.
C10_PercentileIsInclusiveShare ==
    /\ (call.op = "score_feature_cto_method" /\ "error" \notin DOMAIN call.ret)
           => NearestHundredth(call.ret.raw_percentile,
                               SamplesAtOrBelow(call.args.feature, call.args.value),
                               Len(distributions[call.args.feature]))
    /\ (call.op = "percentile_engine_score" /\ call.args.direction = "higher")
           => NearestHundredth(call.ret,
                               SamplesAtOrBelow(call.args.feature, call.args.value),
                               Len(distributions[call.args.feature]))

\* L + R + [value occurs in the sample], L the samples < value and R the
\* samples <= value: twice the average rank of value in the sample.
TwiceAverageRank(feature, value) ==
    LET below == SamplesBelow(feature, value)
        at_or_below == SamplesAtOrBelow(feature, value)
    IN  below + at_or_below + (IF below < at_or_below THEN 1 ELSE 0)

\* C10 as amended: rankPercentile(feature, value) is
\* 100 x (L + R + [value occurs in the sample]) / (2 x sample size), the
\* average rank of the ties; it is the inclusive share 100 x R / n whenever
\* value occurs at most once in the sample.
C10_PercentileIsAverageRank ==
    /\ (call.op = "score_feature_cto_method" /\ "error" \notin DOMAIN call.ret)
           => /\ NearestHundredth(call.ret.raw_percentile,
                                  TwiceAverageRank(call.args.feature, call.args.value),
                                  2 * Len(distributions[call.args.feature]))
              /\ SamplesAtOrBelow(call.args.feature, call.args.value)
                     - SamplesBelow(call.args.feature, call.args.value) <= 1
                     => NearestHundredth(call.ret.raw_percentile,
                                         SamplesAtOrBelow(call.args.feature, call.args.value),
                                         Len(distributions[call.args.feature]))
    /\ (call.op = "percentile_engine_score" /\ call.args.direction = "higher")
           => NearestHundredth(call.ret,
                               TwiceAverageRank(call.args.feature, call.args.value),
                               2 * Len(distributions[call.args.feature]))

\* C10 happens: the percentile of a value that the sample holds several times.
C10_RepeatedValueRanked ==
    /\ call.op = "score_feature_cto_method"
    /\ "error" \notin DOMAIN call.ret
    /\ SamplesAtOrBelow(call.args.feature, call.args.value)
           - SamplesBelow(call.args.feature, call.args.value) >= 2
    /\ SamplesBelow(call.args.feature, call.args.value) >= 1

\* The category the fixed banding gives a higher-is-better-oriented score s
\* (hundredths), one band at a time.
InHigherBand(s, category) ==
    /\ s >= 9000 => category = "Excellent"
    /\ (7500 <= s /\ s < 9000) => category = "Very Good"
    /\ (5000 <= s /\ s < 7500) => category = "Good"
    /\ (2500 <= s /\ s < 5000) => category = "Fair"
    /\ (1000 <= s /\ s < 2500) => category = "Poor"
    /\ s < 1000 => category = "Very Poor"

\* C11: the category of a higher-is-better-oriented score s is Excellent for
\* s >= 90, Very Good for 75 <= s < 90, Good for 50 <= s < 75, Fair for
\* 25 <= s < 50, Poor for 10 <= s < 25 and Very Poor for s < 10, and
\* _interpret_from_final_score and _interpret_higher_is_better give the same
\* category for every score in [0, 100].
C11_HigherBandsAgree ==
    /\ call.op = "interpret_from_final_score"
           => /\ InHigherBand(call.args.final_score, interpretation_to_category(call.ret))
              /\ interpretation_to_category(call.ret)
                     = interpretation_to_category(
                           interpret_higher_is_better(call.args.final_score, 100))
    /\ call.op = "interpret_higher_is_better"
           => /\ InHigherBand(call.args.percentile, interpretation_to_category(call.ret))
              /\ interpretation_to_category(call.ret)
                     = interpretation_to_category(
                           interpret_from_final_score(call.args.percentile))

\* C11 happens: a score on a band's lower edge is put into that band.
C11_ScoreOnBandEdge ==
    /\ call.op = "interpret_from_final_score"
    /\ call.args.final_score = 7500
    /\ interpretation_to_category(call.ret) = "Very Good"

\* The category the mirror-inverted banding gives a pre-direction rank
\* percentile p (hundredths) of a lower_is_better feature.
InMirrorBand(p, category) ==
    /\ p <= 1000 => category = "Excellent"
    /\ (1000 < p /\ p <= 2500) => category = "Very Good"
    /\ (2500 < p /\ p <= 5000) => category = "Good"
    /\ (5000 < p /\ p <= 7500) => category = "Fair"
    /\ (7500 < p /\ p <= 9000) => category = "Poor"
    /\ p > 9000 => category = "Very Poor"

WithoutMalformed(location_features) ==
    [f \in {g \in DOMAIN location_features :
               location_features[g] \notin {None, NonNumeric}} |-> location_features[f]]

\* C13: a feature whose input value is non-numeric or null is excluded from
\* scoring and the classification of the remaining features still completes:
\* score_location, predict, score_dimension, enrich_features_with_categories
\* and get_feature_final_scores never raise because of such a value.
C13_MalformedValueSkipped ==
    /\ call.op \in {"predict", "score_location", "score_dimension",
                    "enrich_features_with_categories", "get_feature_final_scores"}
           => call.ret # ValueError
    /\ call.op = "score_location"
           => call.ret = score_location(WithoutMalformed(call.args.location_features), <<>>)

\* A feature mapping without the keys outside `known`.
Restrict(location_features, known) ==
    [f \in DOMAIN location_features \cap known |-> location_features[f]]

\* C14: a feature name without reference data is skipped, not an error:
\* score_feature_cto_method answers with an error record that carries no
\* score, CTOExactProfiler.score_location keeps exactly one entry per known
\* input feature, QuantileProfiler.score_feature returns the empty map, and
\* score_location and predict return what they return for the mapping with
\* the unknown names removed.
C14_UnknownFeatureSkipped ==
    /\ (call.op = "score_feature_cto_method" /\ call.args.feature \notin DOMAIN distributions)
           => /\ "error" \in DOMAIN call.ret
              /\ "final_score" \notin DOMAIN call.ret
    /\ call.op = "cto_score_location"
           => LET location_features == call.args.location_features
                  known == DOMAIN location_features \cap DOMAIN distributions
              IN  /\ DOMAIN call.ret.feature_scores = known
                  /\ call.ret.total_features = Cardinality(known)
                  /\ \A f \in known : "final_score" \in DOMAIN call.ret.feature_scores[f]
                  /\ call.ret = cto_score_location(Restrict(location_features, known))
    /\ (call.op = "score_feature" /\ call.args.feature \notin DOMAIN feature_ranges)
           => call.ret = <<>>
    /\ call.op = "predict"
           => call.ret = predict(Restrict(call.args.location_features, DOMAIN feature_ranges),
                                 call.args.return_details)

\* Witness for C14: score_location of the percentile profiler was handed a
\* known and an unknown feature and kept the one entry of the known feature.
C14_KnownBesideUnknown ==
    /\ call.op = "cto_score_location"
    /\ "unknown_feature" \in DOMAIN call.args.location_features
    /\ DOMAIN call.ret.feature_scores = {"distance_from_nearest_costco"}
    /\ call.ret.total_features = 1

\* The features of a mapping that contribute a score to some tier.
Contributing(location_features, candidates) ==
    {f \in candidates : /\ f \in DOMAIN location_features
                        /\ location_features[f] # None
                        /\ DOMAIN score_feature(f, location_features[f]) # {}}

\* C15: every classification result reports how many features were scored:
\* the result of predict and the result of score_dimension carry a
\* features_scored count equal to the number of input features that
\* contributed a score.
C15_FeaturesScoredReported ==
    /\ call.op = "predict"
           => /\ "features_scored" \in DOMAIN call.ret
              /\ call.ret.features_scored =
                     Cardinality(Contributing(call.args.location_features,
                                              DOMAIN call.args.location_features))
    /\ call.op = "score_dimension"
           => call.ret.features_scored =
                  Cardinality(Contributing(call.args.location_features,
                                           Range(DimFeatures(call.args.dimension))))

\* The calls answered so far followed by the call just answered, if any.
Answered ==
    IF call.pc = "done"
    THEN Append(history, [op |-> call.op, args |-> call.args, ret |-> call.ret])
    ELSE history

IsRoundedQuotient(r, num, den) == 2 * Abs(r * den - num) <= den

\* The score of a dimension from DIMENSION_FEATURE_WEIGHTS alone: the
\* weighted average of its supplied features, None when none is supplied.
DimensionScoreByOwnWeights(profiler_scores, d) ==
    LET present == {f \in Range(DIMENSION_FEATURES[d]) : f \in DOMAIN profiler_scores}
        w == DIMENSION_FEATURE_WEIGHTS[d]
    IN  IF present = {} THEN None
        ELSE RoundHalfEven(SumOver(present, [f \in present |-> w[f] * profiler_scores[f]]),
                           SumOver(present, [f \in present |-> w[f]]))

\* C18: compute_overall_score uses one mode per call, chosen only by whether
\* DIMENSION_WEIGHTS_FOR_OVERALL is configured.  Configured: the average of
\* the non-null dimension scores weighted by the configured dimension
\* weights, FEATURE_WEIGHTS playing no part.  Not configured: the average of
\* all supplied feature scores weighted by FEATURE_WEIGHTS (1.0 for a name
\* without an entry).  No scores supplied: null.
C18_OneAggregationMode ==
    call.op = "compute_overall_score"
        => LET profiler_scores == call.args.profiler_scores
               weights == call.args.dimension_weights_for_overall
               supplied == DOMAIN profiler_scores
               scored_dims == {d \in DOMAIN weights :
                                  DimensionScoreByOwnWeights(profiler_scores, d) # None}
           IN  IF supplied = {} THEN call.ret = None
               ELSE IF DOMAIN weights # {}
               THEN IF scored_dims = {} THEN call.ret = None
                    ELSE /\ call.ret # None
                         /\ IsRoundedQuotient(
                                call.ret,
                                SumOver(scored_dims,
                                        [d \in scored_dims |->
                                            weights[d]
                                            * DimensionScoreByOwnWeights(profiler_scores, d)]),
                                SumOver(scored_dims, [d \in scored_dims |-> weights[d]]))
               ELSE /\ call.ret # None
                    /\ IsRoundedQuotient(
                           call.ret,
                           SumOver(supplied,
                                   [f \in supplied |-> FeatureWeight(f) * profiler_scores[f]]),
                           SumOver(supplied, [f \in supplied |-> FeatureWeight(f)]))

\* Witness for C18: with dimension weights configured, two dimensions were
\* scored and the result differs from what the feature mode gives for the
\* same scores.
C18_DimensionModeDiffers ==
    /\ call.op = "compute_overall_score"
    /\ DOMAIN call.args.dimension_weights_for_overall # {}
    /\ Cardinality({d \in DOMAIN call.args.dimension_weights_for_overall :
                       compute_dimension_score(call.args.profiler_scores, d) # None}) = 2
    /\ call.ret # None
    /\ call.ret # compute_overall_score(call.args.profiler_scores, <<>>)

\* What a call returns when it runs alone, from the arguments it was given.
Sequentially(frame) ==
    CASE frame.op = "predict" ->
             predict(frame.args.location_features, frame.args.return_details)
      [] frame.op = "score_dimension" ->
             score_dimension(frame.args.dimension, frame.args.location_features)
      [] frame.op = "majority_vote" -> majority_vote(frame.args.dim_results)

\* Every running call still sees the mapping its caller handed over, and
\* every finished call holds the result of running alone.
InterleavedAsSequential ==
    \A t \in Threads :
        /\ (frames[t].pc # "idle" /\ frames[t].op # "majority_vote")
               => frames[t].location_features = frames[t].args.location_features
        /\ frames[t].pc = "done" => frames[t].ret = Sequentially(frames[t])

OverriddenScore(profiler_key, raw) ==
    apply_direction_override(profiler_key, CtoScoreInfo(profiler_key, raw)).final_score

\* C19: for a lower_is_better feature the directional score is strictly
\* smaller at a greater rank percentile (stated for neighbours on the
\* two-decimal grid and against both ends); for a moderate_is_best feature it
\* is at most 100, is 100 at percentile 50 and is the same at 50 + d and
\* 50 - d.
C19_DirectionShape ==
    call.op = "apply_direction_override"
        => LET profiler_key == call.args.profiler_key
               raw == call.args.score_info.raw_percentile
           IN  /\ call.ret.direction = "lower_is_better"
                      => /\ raw > 0 => /\ OverriddenScore(profiler_key, raw - 1)
                                              > call.ret.final_score
                                       /\ OverriddenScore(profiler_key, 0)
                                              > call.ret.final_score
                         /\ raw < 10000 => OverriddenScore(profiler_key, 10000)
                                               < call.ret.final_score
               /\ call.ret.direction = "moderate_is_best"
                      => /\ call.ret.final_score <= 10000
                         /\ raw = 5000 => call.ret.final_score = 10000
                         /\ OverriddenScore(profiler_key, 10000 - raw) = call.ret.final_score

\* Witness for C19: a moderate_is_best feature scored below the middle, with
\* the same score as its mirror percentile above the middle.
C19_ModerateBelowMiddle ==
    /\ call.op = "apply_direction_override"
    /\ call.ret.direction = "moderate_is_best"
    /\ call.args.score_info.raw_percentile = 2000
    /\ call.ret.final_score = 4000
    /\ OverriddenScore(call.args.profiler_key, 8000) = 4000

\* The greatest and the smallest value of the sample of a feature, and how
\* often a value occurs in it.
SampleMax(feature) ==
    CHOOSE v \in Range(distributions[feature]) :
        \A w \in Range(distributions[feature]) : w <= v

SampleMin(feature) ==
    CHOOSE v \in Range(distributions[feature]) :
        \A w \in Range(distributions[feature]) : v <= w

Occurrences(feature, value) ==
    SamplesAtOrBelow(feature, value) - SamplesBelow(feature, value)

\* C20 as stated: the raw rank percentile never falls as the value grows, is
\* 100 at the sample maximum, and at the sample minimum is no greater than
\* at any other value.
C20_MaximumRanksHundred ==
    (call.op = "score_feature_cto_method" /\ "error" \notin DOMAIN call.ret)
        => LET feature == call.args.feature
               value == call.args.value
           IN  /\ \A w \in Values :
                      w <= value => score_feature_cto_method(feature, w).raw_percentile
                                        <= call.ret.raw_percentile
               /\ value = SampleMax(feature) => call.ret.raw_percentile = 10000
               /\ value = SampleMin(feature)
                      => \A w \in Values :
                             w >= value => call.ret.raw_percentile
                                    <= score_feature_cto_method(feature, w).raw_percentile

\* C20 as amended: the raw rank percentile never falls as the value grows; at
\* the sample maximum it is 100 - 50 (m - 1) / n for a maximum that occurs m
\* times among n samples, hence 100 exactly when the maximum occurs once; no
\* value of the sample ranks above the maximum or below the minimum, so among
\* the values of the sample a higher_is_better feature scores highest at the
\* maximum and lowest at the minimum, and a lower_is_better feature the
\* reverse.
C20_MaximumRanksByTies ==
    (call.op = "score_feature_cto_method" /\ "error" \notin DOMAIN call.ret)
        => LET feature == call.args.feature
               value == call.args.value
               n == Len(distributions[feature])
               m == Occurrences(feature, value)
               lower == call.ret.direction = "lower_is_better"
               at(w) == score_feature_cto_method(feature, w)
           IN  /\ \A w \in Values : w <= value => at(w).raw_percentile <= call.ret.raw_percentile
               /\ value = SampleMax(feature)
                      => /\ IsRoundedQuotient(call.ret.raw_percentile,
                                              100 * (100 * n - 50 * (m - 1)), n)
                         /\ (call.ret.raw_percentile = 10000) <=> (m = 1)
                         /\ \A w \in Range(distributions[feature]) :
                                /\ at(w).raw_percentile <= call.ret.raw_percentile
                                /\ lower => at(w).final_score >= call.ret.final_score
                                /\ ~lower => at(w).final_score <= call.ret.final_score
               /\ value = SampleMin(feature)
                      => \A w \in Range(distributions[feature]) :
                             /\ at(w).raw_percentile >= call.ret.raw_percentile
                             /\ lower => at(w).final_score <= call.ret.final_score
                             /\ ~lower => at(w).final_score >= call.ret.final_score

\* Witness for C20: a lower_is_better feature scored at a sample maximum that
\* occurs twice, above a smaller sample value.
C20_TiedMaximumScored ==
    /\ call.op = "score_feature_cto_method"
    /\ "error" \notin DOMAIN call.ret
    /\ call.ret.direction = "lower_is_better"
    /\ call.args.value = SampleMax(call.args.feature)
    /\ Occurrences(call.args.feature, call.args.value) = 2
    /\ SampleMin(call.args.feature) < call.args.value
    /\ call.ret.raw_percentile < 10000

\* The distance of a value from the nearest boundary of the IQR of range r.
BoundaryDistance(r, value) == Min2(Abs(value - r.q25), Abs(value - r.q75))

Outside(r, value) == value < r.q25 \/ value > r.q75

\* C21 as stated: for a tier with q75 - q25 > 0, score_feature returns 1.0
\* inside [q25, q75]; outside it returns a value in [0, 1) that is strictly
\* smaller than the score of every outside value nearer to the IQR.
C21_StrictlyDecreasingOutside ==
    (call.op = "score_feature" /\ call.args.feature \in DOMAIN feature_ranges)
        => \A cat \in DOMAIN call.ret :
               LET r == feature_ranges[call.args.feature][cat]
                   value == call.args.value
               IN  r.q75 - r.q25 > 0
                       => IF ~Outside(r, value) THEN call.ret[cat] = ScoreUnit
                          ELSE /\ 0 <= call.ret[cat] /\ call.ret[cat] < ScoreUnit
                               /\ \A w \in Values :
                                      (/\ Outside(r, w)
                                       /\ BoundaryDistance(r, w) < BoundaryDistance(r, value))
                                          => ScoreTier(r, w) > call.ret[cat]

\* C21 as amended: for a tier with q75 - q25 > 0, score_feature returns 1.0
\* inside [q25, q75]; outside it returns a value in [0, 1) that never grows
\* with the distance from the nearest IQR boundary, strictly decreases while
\* that distance is below the IQR width, and is 0 from a distance of one IQR
\* width on.
C21_DecreasingThenZero ==
    (call.op = "score_feature" /\ call.args.feature \in DOMAIN feature_ranges)
        => \A cat \in DOMAIN call.ret :
               LET r == feature_ranges[call.args.feature][cat]
                   value == call.args.value
                   width == r.q75 - r.q25
               IN  width > 0
                       => IF ~Outside(r, value) THEN call.ret[cat] = ScoreUnit
                          ELSE /\ 0 <= call.ret[cat] /\ call.ret[cat] < ScoreUnit
                               /\ (call.ret[cat] = 0) <=> (BoundaryDistance(r, value) >= width)
                               /\ \A w \in Values :
                                      (/\ Outside(r, w)
                                       /\ BoundaryDistance(r, w) < BoundaryDistance(r, value))
                                          => /\ ScoreTier(r, w) >= call.ret[cat]
                                             /\ BoundaryDistance(r, w) < width
                                                    => ScoreTier(r, w) > call.ret[cat]

\* Witness for C21: a value more than one IQR width away from a tier's range,
\* scored 0 like the nearer value at exactly one width.
C21_BeyondOneWidth ==
    /\ call.op = "score_feature"
    /\ call.args.feature \in DOMAIN feature_ranges
    /\ \E cat \in DOMAIN call.ret :
           LET r == feature_ranges[call.args.feature][cat]
           IN  /\ r.q75 - r.q25 > 0
               /\ Outside(r, call.args.value)
               /\ BoundaryDistance(r, call.args.value) > r.q75 - r.q25
               /\ call.ret[cat] = 0
               /\ ScoreTier(r, call.args.value - 1) = 0
               /\ Outside(r, call.args.value - 1)

\* C22: get_strengths_weaknesses puts every dimension of the results in
\* exactly one of the three lists: strengths when its prediction contains
\* "High", weaknesses when it contains "Low", neutrals in every other case,
\* "Insufficient Data" included.
C22_EveryDimensionListedOnce ==
    call.op = "get_strengths_weaknesses"
        => \A i \in 1..Len(call.args.dim_results) :
               LET item == call.args.dim_results[i]
                   expected == IF HasHigh(item.res.predicted) THEN "strengths"
                               ELSE IF HasLow(item.res.predicted) THEN "weaknesses"
                               ELSE "neutrals"
               IN  \A list \in {"strengths", "weaknesses", "neutrals"} :
                       (item.dim \in Range(call.ret[list])) <=> (list = expected)

\* C23: every stored FeatureRange has min <= q25 <= q50 <= q75 <= max and a
\* count of at least 5; a (feature, tier) pair with fewer than 5 non-null
\* observations has no entry at all; and score_feature gives no score for a
\* tier without entry.
C23_StoredRangesOrdered ==
    /\ call.op = "compute_feature_ranges"
           => \A feature \in DOMAIN call.args.rows :
                  /\ feature \in DOMAIN call.ret
                  /\ \A cat \in Labels :
                         LET observed == call.args.rows[feature][cat].values
                         IN  IF Len(observed) < 5 THEN cat \notin DOMAIN call.ret[feature]
                             ELSE /\ cat \in DOMAIN call.ret[feature]
                                  /\ LET r == call.ret[feature][cat]
                                     IN  /\ r.min <= r.q25 /\ r.q25 <= r.q50
                                         /\ r.q50 <= r.q75 /\ r.q75 <= r.max
                                         /\ r.count >= 5
                                         /\ r.count = Len(observed)
    /\ (call.op = "score_feature" /\ call.args.feature \in DOMAIN feature_ranges)
           => \A cat \in Labels :
                  cat \notin DOMAIN feature_ranges[call.args.feature]
                      => cat \notin DOMAIN call.ret

\* Witness for C23: a tier of six values was stored with its median between
\* two observations, next to a tier of four values and a null that was left
\* out.
C23_StoredBesideLeftOut ==
    /\ call.op = "compute_feature_ranges"
    /\ LET rows == call.args.rows["total_sunshine_hours"]
           stored == call.ret["total_sunshine_hours"]
       IN  /\ Len(rows["Low Performing"].values) = 6
           /\ "Low Performing" \in DOMAIN stored
           /\ stored["Low Performing"].q50 % 4 # 0
           /\ stored["Low Performing"].q25 < stored["Low Performing"].q50
           /\ rows["High Performing"].nulls = 1
           /\ "High Performing" \notin DOMAIN stored

\* C24: building the reference store fails when the outcome column is
\* missing or holds fewer than 15 non-null values, and the caller of
\* _get_profilers is then handed no profiler.
C24_SmallDatasetRejected ==
    (/\ call.pc = "done"
     /\ call.op = "_get_profilers"
     /\ "dataset" \in DOMAIN call.args
     /\ \/ ~call.args.dataset.has_target
        \/ Len(NonNullVolumes(call.args.dataset.rows)) < 15)
        => /\ "raised" \in DOMAIN call.ret
           /\ singleton.profiler = 0

\* The features whose scores compute_dimension_score averages.
AggregatedByDimension(profiler_scores, dimension_name) ==
    IF dimension_name \in DOMAIN DIMENSION_FEATURES
    THEN {f \in Range(DIMENSION_FEATURES[dimension_name]) : f \in DOMAIN profiler_scores}
    ELSE {}

\* The features whose scores compute_overall_score averages.
AggregatedOverall(profiler_scores, dimension_weights_for_overall) ==
    IF DOMAIN dimension_weights_for_overall = {} THEN DOMAIN profiler_scores
    ELSE UNION {AggregatedByDimension(profiler_scores, d) :
                   d \in DOMAIN dimension_weights_for_overall}

\* score lies in 0..100 and between the smallest and the largest of scores[f],
\* f in among (hundredths).
WithinScores(score, scores, among) ==
    /\ 0 <= score /\ score <= 10000
    /\ \E f \in among : scores[f] <= score
    /\ \E f \in among : score <= scores[f]

\* C25: every per-feature final score is 0-100, and the dimension score, the
\* overall score (when not None) and the overall_score of
\* CTOExactProfiler.score_location are 0-100 and lie between the smallest and
\* the largest per-feature score they aggregate.
C25_AggregatesWithinScores ==
    call.pc = "done" =>
        /\ (/\ call.op \in {"score_feature_cto_method", "score_feature_with_config"}
            /\ "final_score" \in DOMAIN call.ret)
               => 0 <= call.ret.final_score /\ call.ret.final_score <= 10000
        /\ (call.op = "compute_dimension_score" /\ call.ret # None)
               => WithinScores(call.ret, call.args.profiler_scores,
                               AggregatedByDimension(call.args.profiler_scores,
                                                     call.args.dimension_name))
        /\ (call.op = "compute_overall_score" /\ call.ret # None)
               => WithinScores(call.ret, call.args.profiler_scores,
                               AggregatedOverall(call.args.profiler_scores,
                                                 call.args.dimension_weights_for_overall))
        /\ call.op = "cto_score_location"
               => LET scored == {f \in DOMAIN call.ret.feature_scores :
                                    "final_score" \in DOMAIN call.ret.feature_scores[f]}
                  IN  /\ 0 <= call.ret.overall_score /\ call.ret.overall_score <= 10000
                      /\ scored # {} =>
                             WithinScores(call.ret.overall_score,
                                          [f \in scored |->
                                              call.ret.feature_scores[f].final_score],
                                          scored)

\* A dimension score strictly between the two different feature scores it
\* averages.
C25_BetweenTwoScores ==
    /\ call.pc = "done"
    /\ call.op = "compute_dimension_score"
    /\ call.ret # None
    /\ \E f, g \in AggregatedByDimension(call.args.profiler_scores,
                                         call.args.dimension_name) :
           /\ call.args.profiler_scores[f] < call.ret
           /\ call.ret < call.args.profiler_scores[g]
           /\ call.args.profiler_scores[g] = 10000

\* C26: every call of _get_profilers that returns hands out a quantile
\* profiler and a dimension profiler, neither of them None, whatever the
\* interleaving of the first callers.
C26_ReturnedPairComplete ==
    \A t \in Threads :
        (thread[t].pc = "done" /\ thread[t].fn = "get_profilers")
            => /\ thread[t].ret # 0
               /\ thread[t].ret_dim # NoDimProfiler

\* The response carries a task result or scores computed from one.
HandsOutResult(response) == "status_code" \notin DOMAIN response

\* C27: a task result is returned, and scores are computed from it, only when
\* the state first read is SUCCESS and the result is not null; a state read
\* as FAILURE gives 422, any other state 404, SUCCESS with a null result 422,
\* also when the state changes between the reads.
C27_ResultOnlyAfterSuccess ==
    (call.pc = "done" /\ call.op \in {"get_task_result_or_raise", "get_overall_score",
                                      "dimension_summary"})
        => LET metas == call.args.metas
               settled == metas[2] = metas[1] /\ metas[3] = metas[1]
           IN  /\ HandsOutResult(call.ret)
                      => /\ metas[1].status = "SUCCESS"
                         /\ metas[1].result # NullResult
               /\ ~HandsOutResult(call.ret) => call.ret.status_code \in {404, 422}
               /\ (call.op = "get_task_result_or_raise" /\ HandsOutResult(call.ret))
                      => call.ret = metas[1].result
               /\ metas[1].status # "SUCCESS"
                      => /\ ~HandsOutResult(call.ret)
                         /\ (settled /\ metas[1].status = "FAILURE")
                                => call.ret.status_code = 422
                         /\ (settled /\ metas[1].status # "FAILURE")
                                => call.ret.status_code = 404
                         /\ call.ret.status_code = 422 <=>
                                \E i \in 1..2 : metas[i].status = "FAILURE"
               /\ (metas[1].status = "SUCCESS" /\ metas[1].result = NullResult)
                      => ~HandsOutResult(call.ret) /\ call.ret.status_code = 422

\* The task succeeds between the first and the second read of its state and
\* the overall-score endpoint answers 404.
C27_SucceededBetweenReads ==
    /\ call.pc = "done"
    /\ call.op = "get_overall_score"
    /\ call.args.metas[1].status = "STARTED"
    /\ call.args.metas[2].status = "SUCCESS"
    /\ "feature_values" \in DOMAIN call.args.metas[2].result
    /\ call.ret.status_code = 404
    /\ call.ret.detail = "SUCCESS"

\* The total of tier cat over the dimension's relevant features, summed from
\* score_feature (units of ScoreUnit).
DimensionTierTotal(dimension, location_features, cat) ==
    LET relevant == Range(Relevant(dimension, location_features))
    IN  SumOver(relevant,
                [feat \in relevant |->
                    LET per_tier == score_feature(feat, location_features[feat])
                    IN  IF cat \in DOMAIN per_tier THEN per_tier[cat] ELSE 0])

\* C28: score_dimension answers "Insufficient Data" with fit_score 0 exactly
\* when the totals of all tiers over the relevant features are 0; otherwise
\* it names a tier whose total is the largest.
C28_InsufficientIffNoTotal ==
    (call.pc = "done" /\ call.op = "score_dimension")
        => LET dimension == call.args.dimension
               location_features == call.args.location_features
               none == \A cat \in Labels :
                           DimensionTierTotal(dimension, location_features, cat) = 0
           IN  /\ none <=> call.ret.predicted = "Insufficient Data"
               /\ none <=> call.ret.fit_score = 0
               /\ ~none =>
                      /\ call.ret.predicted \in Labels
                      /\ \A cat \in Labels :
                             DimensionTierTotal(dimension, location_features, cat)
                                 <= DimensionTierTotal(dimension, location_features,
                                              call.ret.predicted)

\* A relevant feature was scored and its value fits no tier.
C28_ScoredButNoTierFits ==
    /\ call.pc = "done"
    /\ call.op = "score_dimension"
    /\ call.ret.features_scored > 0
    /\ call.ret.predicted = "Insufficient Data"
    /\ \E feat \in DOMAIN call.ret.feature_details :
           /\ DOMAIN call.ret.feature_details[feat].tier_scores = Labels
           /\ \A cat \in Labels : call.ret.feature_details[feat].tier_scores[cat] = 0

\* The tier totals behind the fit score of a finished predict or
\* score_dimension call.
TotalsOfCall ==
    [cat \in Labels |->
        IF call.op = "predict"
        THEN TierTotal(call.args.location_features, cat)
        ELSE DimensionTierTotal(call.args.dimension, call.args.location_features, cat)]

\* C29 as stated: the fit score is 0-100, 0 when all tier totals are 0, and
\* otherwise at least 100/3 (fit scores in tenths).
C29_FitAtLeastThird ==
    (call.pc = "done" /\ call.op \in {"predict", "score_dimension"})
        => /\ 0 <= call.ret.fit_score /\ call.ret.fit_score <= 1000
           /\ (\A cat \in Labels : TotalsOfCall[cat] = 0) => call.ret.fit_score = 0
           /\ (\E cat \in Labels : TotalsOfCall[cat] > 0) => 3 * call.ret.fit_score >= 1000

\* C29: the fit score of predict and of score_dimension is 0-100; it is 0
\* exactly when all tier totals are 0, and otherwise at least 33.3, which is
\* 100/3 rounded to one decimal as the fit score is.
C29_FitAtLeastRoundedThird ==
    (call.pc = "done" /\ call.op \in {"predict", "score_dimension"})
        => /\ 0 <= call.ret.fit_score /\ call.ret.fit_score <= 1000
           /\ (\A cat \in Labels : TotalsOfCall[cat] = 0) <=> call.ret.fit_score = 0
           /\ (\E cat \in Labels : TotalsOfCall[cat] > 0)
                  => call.ret.fit_score >= RoundHalfEven(1000, 3)

\* The three tiers tie with a positive total and the fit score is 33.3.
C29_ThreeWayTie ==
    /\ call.pc = "done"
    /\ call.op \in {"predict", "score_dimension"}
    /\ TotalsOfCall["Low Performing"] > 0
    /\ \A cat \in Labels : TotalsOfCall[cat] = TotalsOfCall["Low Performing"]
    /\ call.ret.fit_score = 333

\* C30: for a moderate_is_best feature the category follows from the
\* distance |raw - 50| with the thresholds 10, 25, 40 and 50, and for every
\* raw percentile of 0-100 it is Excellent, Very Good, Good or Fair: never
\* Poor and never Very Poor, also when the final score is 0.
C30_ModerateNeverPoor ==
    (/\ call.pc = "done"
     /\ call.op = "apply_direction_override"
     /\ call.args.profiler_key \in DOMAIN FEATURE_DIRECTION
     /\ FEATURE_DIRECTION[call.args.profiler_key] = "moderate_is_best")
        => LET dist == Abs(call.args.score_info.raw_percentile - 5000)
               category == interpretation_to_category(call.ret.interpretation)
           IN  /\ category = (CASE dist <= 1000 -> "Excellent"
                                [] dist > 1000 /\ dist <= 2500 -> "Very Good"
                                [] dist > 2500 /\ dist <= 4000 -> "Good"
                                [] OTHER -> "Fair")
               /\ category \in {"Excellent", "Very Good", "Good", "Fair"}
               /\ call.ret.interpretation # "Poor (extreme)"

\* A moderate_is_best feature at the far end of its sample: final score 0,
\* category Fair.
C30_FairAtZero ==
    /\ call.pc = "done"
    /\ call.op = "apply_direction_override"
    /\ call.args.profiler_key \in DOMAIN FEATURE_DIRECTION
    /\ FEATURE_DIRECTION[call.args.profiler_key] = "moderate_is_best"
    /\ call.args.score_info.raw_percentile = 10000
    /\ call.ret.final_score = 0
    /\ interpretation_to_category(call.ret.interpretation) = "Fair"

====
